---- MODULE Spec2Model ----
(***************************************************************************)
(* A model of the WebSocket endpoint of src/rust/net/ws.rs: the frame      *)
(* codec and handshake parsers, the non-blocking write path, the           *)
(* per-worker reactor and the endpoint lifecycle; and of the task runtime  *)
(* of src/rust/util/runtime.rs, the elastic worker pool beneath it, with   *)
(* the channel of src/rust/std/channel.rs and the growth of the buffers of *)
(* src/rust/std/vec.rs.                                                    *)
(*                                                                         *)
(* Bytes are integers 0..255 and buffers are sequences of bytes.  A        *)
(* connection is a record holding the fields of ConnectionInner together   *)
(* with the kernel side of its socket (what the peer has been handed, how  *)
(* much the kernel will still take) and the log of handler invocations.    *)
(***************************************************************************)
EXTENDS Integers, Sequences, FiniteSets, TLC

VARIABLES
    conn,      \* SpecConn: the connection under study (ConnectionInner + socket)
    wire,      \* SpecConn: bytes the peer has not yet delivered
    peerfin,   \* SpecConn: the peer has closed its sending side
    script,    \* SpecConn: the frames the peer's byte stream was built from
    handler,   \* the registered handler closure (State.handler)
    now,       \* getmicros(), in units of one second
    cpayload,  \* SpecCodec: payload handed to send / sendb
    cmtype,    \* SpecCodec: message type of the send
    cbytes,    \* SpecCodec: bytes sent and not yet received
    cphase,    \* SpecCodec: "init" before the send, "sent" after it
    rx,        \* SpecCodec: the connection that receives what was sent
    ws,        \* SpecWs: the endpoint (State, WorkerStates, fds and allocations)
    cs,        \* SpecWs: the Connections of the endpoint, by id
    rt,        \* SpecRt: a Runtime, its workers, its channel and its tasks
    ch,        \* SpecChan: a channel, its handles, its messages and the threads using it
    el,        \* SpecLoop: the workers' event loops, step by step
    ut         \* SpecWire: the threads inside send and close on one connection

connVars == <<conn, wire, peerfin, script>>
codecVars == <<cpayload, cmtype, cbytes, cphase, rx>>
wsVars == <<ws, cs, rt, ch, el, ut>>
vars ==
    <<conn, wire, peerfin, script, handler, now, cpayload, cmtype, cbytes, cphase, rx, ws, cs, rt, ch, el, ut>>

\* No Runtime is under study.
NoRuntime == [halt |-> FALSE]

\* No channel is under study.
NoChannel == [destroyed |-> FALSE]

\* No event loop is under study.
NoLoop == [halt |-> FALSE]

\* No thread is inside a call.
NoCalls == [lock |-> 0]

----------------------------------------------------------------------------
(* Program constants (ws.rs lines 5-22), as ASCII byte sequences.          *)

\* "HTTP/1.1 400 Bad Request\r\nContent-Type: text/plain\r\nConnection: close\r\n\r\n"
BAD_REQUEST == <<72,84,84,80,47,49,46,49,32,52,48,48,32,66,97,100,32,82,101,113,117,101,115,116,13,10,67,111,110,116,101,110,116,45,84,121,112,101,58,32,116,101,120,116,47,112,108,97,105,110,13,10,67,111,110,110,101,99,116,105,111,110,58,32,99,108,111,115,101,13,10,13,10>>

\* "HTTP/1.1 101 Switching Protocols\r\nUpgrade: websocket\r\nConnection: Upgrade\r\nSec-WebSocket-Accept: "
SWITCH_PROTOCOL == <<72,84,84,80,47,49,46,49,32,49,48,49,32,83,119,105,116,99,104,105,110,103,32,80,114,111,116,111,99,111,108,115,13,10,85,112,103,114,97,100,101,58,32,119,101,98,115,111,99,107,101,116,13,10,67,111,110,110,101,99,116,105,111,110,58,32,85,112,103,114,97,100,101,13,10,83,101,99,45,87,101,98,83,111,99,107,101,116,45,65,99,99,101,112,116,58,32>>

\* "HTTP/1.1 101 Switching Protocols\r\n"
SWITCHING_PROTOCOL_PREFIX == <<72,84,84,80,47,49,46,49,32,49,48,49,32,83,119,105,116,99,104,105,110,103,32,80,114,111,116,111,99,111,108,115,13,10>>

\* "GET /"
GET_PREFIX == <<71,69,84,32,47>>

\* "Sec-WebSocket-Key: "
SEC_KEY_PREFIX == <<83,101,99,45,87,101,98,83,111,99,107,101,116,45,75,101,121,58,32>>

\* "\r\n\r\n"
CRLFCRLF == <<13,10,13,10>>

EAGAIN == -11

\* Any negative result of socket_send / socket_recv other than EAGAIN.
EFATAL == -1

\* socket_recv is always called with a 256-byte window (ws.rs line 1074).
RECV_CHUNK == 256

----------------------------------------------------------------------------
(* Byte arithmetic.                                                        *)

Min(a, b) == IF a < b THEN a ELSE b

\* b ^ k on two bytes, bit by bit.
Xor8(a, b) ==
      ((a + b) % 2)
    + (((a \div 2) + (b \div 2)) % 2) * 2
    + (((a \div 4) + (b \div 4)) % 2) * 4
    + (((a \div 8) + (b \div 8)) % 2) * 8
    + (((a \div 16) + (b \div 16)) % 2) * 16
    + (((a \div 32) + (b \div 32)) % 2) * 32
    + (((a \div 64) + (b \div 64)) % 2) * 64
    + (((a \div 128) + (b \div 128)) % 2) * 128

\* (value >> k) as u8.  Buffer lengths in the model stay below 2^31, so a
\* shift of 31 bits or more yields 0.
ShrByte(value, k) == IF k >= 31 THEN 0 ELSE (value \div (2 ^ k)) % 256

\* A faulty conversion: least significant byte first.
to_le_bytes_u16(value) == <<ShrByte(value % 65536, 0), ShrByte(value % 65536, 8)>>

to_be_bytes_u16(value) == <<ShrByte(value % 65536, 8), ShrByte(value % 65536, 0)>>

to_be_bytes_u64(value) ==
    <<ShrByte(value, 56), ShrByte(value, 48), ShrByte(value, 40), ShrByte(value, 32),
      ShrByte(value, 24), ShrByte(value, 16), ShrByte(value, 8), ShrByte(value, 0)>>

\* The sentinel for a declared 64-bit length of 2^24 or more: larger than any
\* buffer of the model.
HugeLen == 1073741824

\* (rvec[2] << 8) | rvec[3]
Be16(b) == b[1] * 256 + b[2]

\* (rvec[2] << 56) | ... | rvec[9], a 64-bit usize.  The lengths of
\* 2^64 - 256 and more are written as the negative numbers they are in two's
\* complement (2^64 - k is -k): these are the lengths to which adding a
\* header length can wrap around.
Be64(b) ==
    IF \A i \in 1..7 : b[i] = 255
    THEN b[8] - 256
    ELSE IF b[1] # 0 \/ b[2] # 0 \/ b[3] # 0 \/ b[4] # 0 \/ b[5] # 0
    THEN HugeLen
    ELSE b[6] * 65536 + b[7] * 256 + b[8]

\* offset + payload_len does not fit a usize.
Overflows(offset, payload_len) == payload_len < 0 /\ offset + payload_len >= 0

\* offset + payload_len > len, where the sum has not overflowed.
SumExceeds(offset, payload_len, len) ==
    IF payload_len < 0 THEN TRUE ELSE offset + payload_len > len

\* The build and what an overflowing sum has led to: with overflow checks
\* the addition panics; without them the sum wraps around.
NoNum == [checked |-> FALSE, panicked |-> FALSE, oob |-> FALSE, spin |-> FALSE]

\* A faulty shift: the length is reduced but the elements are not moved.
ShiftKeepHead(v, n) == IF n > Len(v) THEN v ELSE SubSeq(v, 1, Len(v) - n)

\* Vec::shift(n): drop the first n elements.
Shift(v, n) == IF n > Len(v) THEN v ELSE SubSeq(v, n + 1, Len(v))

\* v[from..to] with 0-based, end-exclusive bounds as in the Rust source.
Slice(v, from, to) == SubSeq(v, from + 1, to)

\* v[i] with a 0-based index.
At(v, i) == v[i + 1]

----------------------------------------------------------------------------
(* The socket: an external collaborator.  The kernel takes at most `space` *)
(* more bytes before it answers EAGAIN; after shutdown, a peer reset or    *)
(* close, a send fails.                                                    *)

SockBroken(st) == st.shut \/ st.reset \/ st.closed

\* The result of socket_send(handle, msg): bytes taken, EAGAIN or an error.
SendResult(st, msg) ==
    IF SockBroken(st) THEN EFATAL
    ELSE IF Len(msg) = 0 THEN 0
    ELSE IF st.space = 0 THEN EAGAIN
    ELSE Min(st.space, Len(msg))

\* The socket once socket_send(handle, msg) has answered res.
SocketTake(st, msg, res) ==
    IF res > 0
    THEN [st EXCEPT !.out = @ \o SubSeq(msg, 1, res), !.space = @ - res]
    ELSE st

\* The socket after socket_send(handle, msg).
SocketSend(st, msg) == SocketTake(st, msg, SendResult(st, msg))

socket_shutdown(st) == [st EXCEPT !.shut = TRUE]

----------------------------------------------------------------------------
(* Vec<u8> as wbuf uses it.  Where the allocator can fail (mem.track) the   *)
(* capacity of wbuf and the fate of its buffer pointer are part of the      *)
(* state: mem.fails is the number of allocations the allocator will refuse  *)
(* next, mem.lost says that a failed resize has set the pointer to null.    *)

\* Vec::new: min
VEC_MIN == 16

NoMem ==
    [track |-> FALSE, fails |-> 0, cap |-> 0, lost |-> FALSE, crashed |-> FALSE,
     failed |-> FALSE, ret |-> "none"]

\* Vec::next_power_of_two
next_power_of_two(n) ==
    IF n < VEC_MIN THEN VEC_MIN
    ELSE CHOOSE p \in {2 ^ i : i \in 0..30} : p >= n /\ p < 2 * n

\* Vec::resize_impl(needed) when an allocation is called for: on failure
\* the buffer pointer is set to null and false is returned; a success
\* after the pointer was lost is a fresh buffer.
resize_impl(st, needed) ==
    IF st.mem.fails > 0
    THEN [st |-> [st EXCEPT !.mem.fails = @ - 1, !.mem.lost = TRUE,
                            !.mem.failed = TRUE],
          ok |-> FALSE]
    ELSE [st |-> [st EXCEPT !.mem.cap = next_power_of_two(needed), !.mem.lost = FALSE],
          ok |-> TRUE]

\* Vec::resize(len) after a shift: a downward resize, which does not fail.
resize(st) ==
    IF st.mem.track THEN [st EXCEPT !.mem.cap = next_power_of_two(Len(st.wbuf))] ELSE st

\* Vec::append_ptr once room was made (r.ok) or not.
append_copy(r, bytes) ==
    IF r.ok THEN [st |-> [r.st EXCEPT !.wbuf = @ \o bytes], ok |-> TRUE] ELSE r

\* Vec::append_ptr(ptr, elems) on wbuf: a resize when the bytes do not
\* fit, then the copy to value + elements.  With the pointer lost and no
\* resize called for, the copy goes through a null pointer: the process
\* ends.
append_ptr(st, bytes) ==
    IF ~st.mem.track THEN [st |-> [st EXCEPT !.wbuf = @ \o bytes], ok |-> TRUE]
    ELSE IF Len(st.wbuf) + Len(bytes) > st.mem.cap
    THEN append_copy(resize_impl(st, Len(st.wbuf) + Len(bytes)), bytes)
    ELSE IF st.mem.lost THEN [st |-> [st EXCEPT !.mem.crashed = TRUE], ok |-> FALSE]
    ELSE [st |-> [st EXCEPT !.wbuf = @ \o bytes], ok |-> TRUE]

\* The connection's readers-writer lock, followed only where `track` is
\* set: whether the acting thread holds the write lock, and whether wbuf or
\* cstate was changed without it.
NoLock == [track |-> FALSE, held |-> FALSE, bare |-> FALSE]

\* let _l = inner.lock.write()
lock_write(st) == IF st.lk.track THEN [st EXCEPT !.lk.held = TRUE] ELSE st

\* _l goes out of scope.
lock_drop(st) == IF st.lk.track THEN [st EXCEPT !.lk.held = FALSE] ELSE st

\* The acting thread is about to change wbuf or to set cstate to Closed.
mutating(st) ==
    IF st.lk.track /\ ~st.lk.held THEN [st EXCEPT !.lk.bare = TRUE] ELSE st

----------------------------------------------------------------------------
(* Connection::writeb, Connection::close, WsResponse::send_impl.           *)

RECURSIVE close(_, _)

\* writeb once append_ptr has returned r: a Write message goes to the
\* worker with a wake byte; if the append failed the connection is closed
\* with 1011 and the call returns an error.
writebAppended(r) ==
    IF r.st.mem.crashed THEN [st |-> r.st, ok |-> FALSE]
    ELSE IF r.ok THEN [st |-> [r.st EXCEPT !.wmsgs = @ + 1, !.wake = TRUE], ok |-> TRUE]
    ELSE [st |-> close(r.st, 1011), ok |-> FALSE]

\* A faulty writeb: after a partial send the whole message is queued.
writebQueueWhole(sent, msg, res) ==
    IF res = EAGAIN \/ (res >= 0 /\ res < Len(msg)) THEN
        [st |-> [sent EXCEPT !.wbuf = @ \o msg, !.wmsgs = @ + 1, !.wake = TRUE], ok |-> TRUE]
    ELSE IF res < 0 THEN [st |-> socket_shutdown(sent), ok |-> TRUE]
    ELSE [st |-> sent, ok |-> TRUE]

\* writeb once the send has answered res (0 when no send was tried): what
\* was not sent is appended to wbuf; a failed send shuts the socket down.
writebQueue(sent, msg, res) ==
    IF res = EAGAIN \/ (res >= 0 /\ res < Len(msg)) THEN
        writebAppended(
            append_ptr(mutating(sent), SubSeq(msg, (IF res < 0 THEN 0 ELSE res) + 1, Len(msg))))
    ELSE IF res < 0 THEN [st |-> socket_shutdown(sent), ok |-> TRUE]
    ELSE [st |-> sent, ok |-> TRUE]

\* writeb on a connection that is not Closed: the socket is tried only when
\* wbuf is empty and debug_pending is off.
writebSend(inner, msg) ==
    IF Len(inner.wbuf) = 0 /\ ~inner.debug_pending
    THEN writebQueue(SocketSend(inner, msg), msg, SendResult(inner, msg))
    ELSE writebQueue(inner, msg, 0)

\* Connection::writeb: [st |-> the connection afterwards, ok |-> Ok or Err].
\* `written` is the history of the messages writeb was given and did not
\* refuse, in call order.
writeb(st, msg) ==
    IF st.mem.crashed THEN [st |-> st, ok |-> FALSE]
    ELSE IF st.cstate = "Closed" THEN [st |-> [st EXCEPT !.last = now], ok |-> FALSE]
    ELSE writebSend([st EXCEPT !.last = now, !.written = @ \o msg], msg)

\* A faulty close: a single close frame, without the empty frame before it.
closeOneFrame(st, v) ==
    IF st.cstate # "NeedHandshake"
    THEN socket_shutdown(writeb(writeb(st, <<136, 2>>).st, to_be_bytes_u16(v)).st)
    ELSE socket_shutdown(st)

\* Connection::close(v)
close(st, v) ==
    IF st.cstate # "NeedHandshake"
    THEN socket_shutdown(
             writeb(writeb(writeb(st, <<136, 0>>).st, <<136, 2>>).st, to_be_bytes_u16(v)).st)
    ELSE socket_shutdown(st)

\* A faulty header: a payload of exactly 125 bytes gets the 16-bit form.
FrameHeaderWritesWide(b1, n) ==
    IF n < 125 THEN << <<b1, n>> >>
    ELSE IF n <= 65535 THEN << <<b1, 126>>, to_be_bytes_u16(n) >>
    ELSE << <<b1, 127>>, to_be_bytes_u64(n) >>

\* The header bytes send_impl writes before the payload, one entry per writeb.
FrameHeaderWrites(b1, n) ==
    IF n <= 125 THEN << <<b1, n>> >>
    ELSE IF n <= 65535 THEN << <<b1, 126>>, to_be_bytes_u16(n) >>
    ELSE << <<b1, 127>>, to_be_bytes_u64(n) >>

\* The writeb calls of send_impl in order; the first failure closes with 1011.
RECURSIVE WriteAll(_, _)

\* After one writeb of send_impl has returned r: go on, or close and fail.
WriteRest(r, rest) ==
    IF r.ok THEN WriteAll(r.st, rest)
    ELSE [st |-> close(r.st, 1011), ok |-> FALSE]

WriteAll(st, parts) ==
    IF parts = <<>> THEN [st |-> st, ok |-> TRUE]
    ELSE WriteRest(writeb(st, Head(parts)), Tail(parts))

\* send_impl returns r: its guard _l is dropped.
Returning(r) == [st |-> lock_drop(r.st), ok |-> r.ok]

\* WsResponse::send_impl(mtype, bytes), under the connection's write lock.
send_impl(st, mtype, bytes) ==
    Returning(WriteAll(lock_write(st),
                       FrameHeaderWrites(IF mtype = "Text" THEN 129 ELSE 130, Len(bytes))
                           \o <<bytes>>))

----------------------------------------------------------------------------
(* The handler closure.  It records the request it was invoked with; the   *)
(* "echo" handler answers with a text frame carrying the same payload (as  *)
(* the handler of test_ws2 answers "got it!"), the "close" handler closes  *)
(* the connection through its WsResponse.                                  *)

Handlers == {"log", "echo", "close"}

\* What the registered closure does with the request and the WsResponse.
HandlerBody(logged, req) ==
    IF handler = "echo" THEN send_impl(logged, "Text", req.msg).st
    ELSE IF handler = "close" THEN close(logged, 1000)
    ELSE logged

InvokeHandler(st, req) == HandlerBody([st EXCEPT !.calls = Append(@, req)], req)

----------------------------------------------------------------------------
(* The handshake parsers and the frame decoder.                            *)

\* A faulty close_cleanly: the socket is shut down without a close frame.
close_cleanlyNoFrame(st, status) == socket_shutdown(st)

\* WebSocket::close_cleanly
close_cleanly(st, status) == close(st, status)

\* handle_websocket_handshake: Base64(SHA1(key || magic)), 28 bytes.  SHA-1
\* and Base64 are external; the stand-in is a 28-byte token derived from
\* the key.
AcceptKey(sec_key) ==
    [i \in 1..28 |-> 65 + ((Len(sec_key) + i + (IF sec_key = <<>> THEN 0 ELSE sec_key[1])) % 26)]

\* WebSocket::switch_protocol
\* match handle.write(..) { Ok(_) => {} Err(_) => handle.close(1011) }
OrClose1011(r) == IF r.ok THEN r.st ELSE close(r.st, 1011)

switch_protocol(st, accept_key) ==
    OrClose1011(writeb(
        OrClose1011(writeb(
            OrClose1011(writeb(st, SWITCH_PROTOCOL)),
            accept_key)),
        CRLFCRLF))

\* WebSocket::bad_request
bad_request(st) == socket_shutdown(writeb(st, BAD_REQUEST).st)

\* rvec[i] == '\n' && rvec[i-1] == '\r' && rvec[i-2] == '\n' && rvec[i-3] == '\r'
SentinelAt(rvec, i) ==
    /\ i >= 3
    /\ At(rvec, i) = 10 /\ At(rvec, i - 1) = 13
    /\ At(rvec, i - 2) = 10 /\ At(rvec, i - 3) = 13

\* The least element of a non-empty set of indices.
Least(S) == CHOOSE i \in S : \A j \in S : i <= j

\* The first index i in from..len-1 with rvec[i] in `stops`, else `none`.
FirstIn(rvec, from, stops, none) ==
    LET S == {i \in from..(Len(rvec) - 1) : At(rvec, i) \in stops} IN
    IF S = {} THEN none ELSE Least(S)

UriChar(b) ==
    \/ (b >= 97 /\ b <= 122) \/ (b >= 65 /\ b <= 90) \/ (b >= 48 /\ b <= 57)
    \/ b = 45 \/ b = 46 \/ b = 95 \/ b = 126 \/ b = 47

\* Once the handshake is accepted: answer, switch state, consume the header.
\* rbuf.clear() when all n bytes of rbuf are consumed, else rbuf.shift(n).
Consume(st, n) ==
    IF Len(st.rbuf) = n
    THEN [st EXCEPT !.rbuf = <<>>]
    ELSE [st EXCEPT !.rbuf = Shift(@, n)]

HsAccept(st, sec_key, i) ==
    Consume([switch_protocol(st, AcceptKey(sec_key)) EXCEPT !.cstate = "HandshakeComplete"],
            i + 1)

\* Whether the line starting after index i is a Sec-WebSocket-Key header
\* whose value is terminated within the buffer.
KeyLineAt(rvec, i) ==
    LET kstart == i + 1 + Len(SEC_KEY_PREFIX) IN
    /\ At(rvec, i) = 10
    /\ Len(rvec) > kstart
    /\ Slice(rvec, i + 1, kstart) = SEC_KEY_PREFIX
    /\ FirstIn(rvec, kstart, {13, 10}, -1) # -1

\* The header loop of proc_hs: it runs from uri_end to the first sentinel,
\* the last terminated key line before the sentinel giving sec_key.
HsScan(st, uri_end) ==
    LET rvec == st.rbuf
        ends == {i \in uri_end..(Len(rvec) - 1) : SentinelAt(rvec, i)}
    IN
    IF ends = {} THEN st
    ELSE
      LET i == Least(ends)
          keys == {k \in uri_end..(i - 1) : KeyLineAt(rvec, k)}
          last == CHOOSE k \in keys : \A j \in keys : j <= k
          kstart == last + 1 + Len(SEC_KEY_PREFIX)
          sec_key == IF keys = {} THEN <<>>
                     ELSE Slice(rvec, kstart, FirstIn(rvec, kstart, {13, 10}, -1))
      IN IF sec_key = <<>> \/ Len(sec_key) > 24
         THEN bad_request(st)
         ELSE HsAccept(st, sec_key, i)

\* WebSocket::proc_hs
proc_hs(st) ==
    LET rvec == st.rbuf
        len == Len(rvec)
    IN
    IF len >= 5 /\ Slice(rvec, 0, 5) = GET_PREFIX THEN
        LET uri_end == FirstIn(rvec, 5, {32, 63, 13, 10}, 0) IN
        IF uri_end = 0 THEN bad_request(st)
        ELSE IF \E i \in 4..(uri_end - 1) : ~UriChar(At(rvec, i)) THEN bad_request(st)
        ELSE HsScan(st, uri_end)
    ELSE bad_request(st)

\* A faulty proc_hs_client: the status line is not compared.
proc_hs_clientAnyStatus(st) ==
    LET ends == {i \in 3..(Len(st.rbuf) - 1) : SentinelAt(st.rbuf, i)} IN
    IF ends = {} THEN st
    ELSE Consume([st EXCEPT !.cstate = "HandshakeComplete"], Least(ends) + 1)

\* WebSocket::proc_hs_client: the first sentinel at or after the length of
\* the 101 status line completes the handshake if the buffer starts with it.
proc_hs_client(st) ==
    LET rvec == st.rbuf
        plen == Len(SWITCHING_PROTOCOL_PREFIX)
        ends == {i \in 3..(Len(rvec) - 1) : SentinelAt(rvec, i) /\ i >= plen}
    IN
    IF ends = {} \/ Slice(rvec, 0, plen) # SWITCHING_PROTOCOL_PREFIX THEN st
    ELSE Consume([st EXCEPT !.cstate = "HandshakeComplete"], Least(ends) + 1)

\* A faulty unmasking: the key is indexed with i + 1 instead of i.
UnmaskKeyOffByOne(payload, masking_key) ==
    [i \in 1..Len(payload) |-> Xor8(payload[i], masking_key[(i % 4) + 1])]

\* The masked branch of proc_hs_complete: rvec[offset + i] ^= masking_key[i % 4].
Unmask(payload, masking_key) ==
    [i \in 1..Len(payload) |-> Xor8(payload[i], masking_key[((i - 1) % 4) + 1])]

\* proc_hs_complete where offset + payload_len overflows to the sum `wrapped`.
\* With overflow checks the addition panics.  Without them the wrapped sum
\* passes the test against len: a masked frame reads its key, where Vec's
\* index panics when rbuf ends before the key does, and enters the unmasking
\* loop of 2^64 + payload_len turns; an unmasked one reaches the handler with the
\* slice rvec[offset..wrapped], which Vec's range index builds from
\* rvec + offset with the length wrapped - offset, beyond the buffer, and
\* then `wrapped` bytes are taken off rbuf.
proc_hs_overflow(st, fin, op, mask, offset, wrapped) ==
    IF st.num.checked THEN [st EXCEPT !.num.panicked = TRUE]
    ELSE IF wrapped > Len(st.rbuf) THEN st
    ELSE IF mask /\ offset > Len(st.rbuf) THEN [st EXCEPT !.num.panicked = TRUE]
    ELSE IF mask THEN [st EXCEPT !.num.spin = TRUE]
    ELSE Consume(InvokeHandler([st EXCEPT !.num.oob = TRUE],
                               [fin |-> fin, op |-> op,
                                msg |-> Slice(st.rbuf, offset, Len(st.rbuf))]),
                 wrapped)

\* WebSocket::proc_hs_complete: decode at most one frame from rbuf.
proc_hs_complete(st) ==
    LET rvec == st.rbuf
        len == Len(rvec)
    IN
    IF len < 2 THEN st
    ELSE IF (At(rvec, 0) \div 16) % 8 # 0 THEN close_cleanly(st, 1002)
    ELSE
      LET fin == At(rvec, 0) >= 128
          op == At(rvec, 0) % 128
          mask == At(rvec, 1) >= 128
          short_len == At(rvec, 1) % 128
          hdr == IF short_len = 126 THEN 4 ELSE IF short_len = 127 THEN 10 ELSE 2
      IN
      IF len < hdr THEN st
      ELSE
        LET payload_len == IF short_len = 126 THEN Be16(Slice(rvec, 2, 4))
                           ELSE IF short_len = 127 THEN Be64(Slice(rvec, 2, 10))
                           ELSE short_len
            offset == IF mask THEN hdr + 4 ELSE hdr
        IN
        IF Overflows(offset, payload_len)
        THEN proc_hs_overflow(st, fin, op, mask, offset, offset + payload_len)
        ELSE IF SumExceeds(offset, payload_len, len) THEN st
        ELSE
          Consume(InvokeHandler(st,
                      [fin |-> fin, op |-> op,
                       msg |-> IF mask
                               THEN Unmask(Slice(rvec, offset, offset + payload_len),
                                           Slice(rvec, offset - 4, offset))
                               ELSE Slice(rvec, offset, offset + payload_len)]),
                  payload_len + offset)

\* WebSocket::proc_messages: parse until rbuf is empty or stops shrinking.
RECURSIVE proc_messages(_)

\* One turn of the loop: the parser the connection's state selects.
proc_message(st) ==
    IF st.cstate = "NeedHandshake"
    THEN (IF st.ctype = "ClientConnection" THEN proc_hs_client(st) ELSE proc_hs(st))
    ELSE proc_hs_complete(st)

\* The loop's exit test: elen == 0 || elen == slen.
proc_messages_next(slen, after) ==
    IF Len(after.rbuf) = 0 \/ Len(after.rbuf) = slen THEN after ELSE proc_messages(after)

proc_messages(st) == proc_messages_next(Len(st.rbuf), proc_message(st))

\* WebSocket::proc_write: drain wbuf by successive sends, then drop the
\* write interest once wbuf is empty.
RECURSIVE DrainWbuf(_)
DrainWbuf(st) ==
    LET ret == SendResult(st, st.wbuf) IN
    IF ret < 0 THEN (IF ret # EAGAIN THEN socket_shutdown(st) ELSE st)
    ELSE IF ret > 0
    THEN DrainWbuf(resize([mutating(SocketSend(st, st.wbuf)) EXCEPT !.wbuf = Shift(@, ret)]))
    ELSE st

\* With wbuf empty the connection is registered for reading only.
DropWriteInterest(st) == IF Len(st.wbuf) = 0 THEN [st EXCEPT !.winterest = FALSE] ELSE st

proc_write(st) == DropWriteInterest(DrainWbuf(st))

\* WebSocket::proc_connection on a writable event: proc_write under the
\* connection's write lock.
proc_connection_write(st) == lock_drop(proc_write(lock_write(st)))

\* WebSocket::proc_read when socket_recv returns 0 or a hard error: cstate
\* is set to Closed under the connection's write lock.
proc_read_closed(st) ==
    lock_drop([mutating(lock_write(st)) EXCEPT !.cstate = "Closed", !.closed = TRUE, !.last = now])

----------------------------------------------------------------------------
(* The peer of the connection under study: the byte stream it sends is an  *)
(* upgrade request (or, towards a client connection, an upgrade response)  *)
(* followed by frames encoded as RFC 6455 section 5 prescribes.            *)

\* A frame as the peer puts it on the wire.  `b0` is the first header byte,
\* `form` the length encoding ("short", "16" or "64"), which need not be the
\* smallest one.
PeerEncode(f) ==
    LET n == Len(f.payload)
        mbit == IF f.masked THEN 128 ELSE 0
        lenbytes == IF f.form = "short" THEN <<mbit + n>>
                    ELSE IF f.form = "16" THEN <<mbit + 126, n \div 256, n % 256>>
                    ELSE <<mbit + 127, 0, 0, 0, 0, 0, (n \div 65536) % 256, (n \div 256) % 256, n % 256>>
        body == IF f.masked
                THEN [i \in 1..n |-> Xor8(f.payload[i], f.key[((i - 1) % 4) + 1])]
                ELSE f.payload
    IN <<f.b0>> \o lenbytes \o (IF f.masked THEN f.key ELSE <<>>) \o body

RECURSIVE PeerEncodeAll(_)
PeerEncodeAll(fs) == IF fs = <<>> THEN <<>> ELSE PeerEncode(Head(fs)) \o PeerEncodeAll(Tail(fs))

Frame(b0, masked, form, payload) ==
    [b0 |-> b0, masked |-> masked, key |-> <<55, 250, 33, 61>>, form |-> form, payload |-> payload]

\* "GET / HTTP/1.1\r\nSec-WebSocket-Key: k1\r\n\r\n"
ReqPlain == <<71,69,84,32,47,32,72,84,84,80,47,49,46,49,13,10>> \o SEC_KEY_PREFIX \o <<107,49>> \o CRLFCRLF

Key24 == <<65,66,67,68,69,70,71,72,73,74,75,76,77,78,79,80,81,82,83,84,85,86,87,88>>
Key25 == Key24 \o <<89>>

\* "GET /a?b HTTP/1.1\r\nHost: h\r\nSec-WebSocket-Key: ABCDEFGHIJKLMNOPQRSTUVWX\r\n\r\n"
ReqQuery == <<71,69,84,32,47,97,63,98,32,72,84,84,80,47,49,46,49,13,10,72,111,115,116,58,32,104,13,10>>
            \o SEC_KEY_PREFIX \o Key24 \o CRLFCRLF

\* "POST / HTTP/1.1\r\nSec-WebSocket-Key: k1\r\n\r\n"
ReqPost == <<80,79,83,84,32,47,32,72,84,84,80,47,49,46,49,13,10>> \o SEC_KEY_PREFIX \o <<107,49>> \o CRLFCRLF

\* "GET /a^b HTTP/1.1\r\nSec-WebSocket-Key: k1\r\n\r\n"
ReqBadUri == <<71,69,84,32,47,97,94,98,32,72,84,84,80,47,49,46,49,13,10>> \o SEC_KEY_PREFIX \o <<107,49>> \o CRLFCRLF

\* "GET /../ HTTP/1.1\r\n\r\n"
ReqNoKey == <<71,69,84,32,47,46,46,47,32,72,84,84,80,47,49,46,49,13,10,13,10>>

\* "GET / HTTP/1.1\r\nSec-WebSocket-Key: ABCDEFGHIJKLMNOPQRSTUVWXY\r\n\r\n" (25 bytes)
ReqLongKey == <<71,69,84,32,47,32,72,84,84,80,47,49,46,49,13,10>> \o SEC_KEY_PREFIX
              \o Key25 \o CRLFCRLF

\* "HTTP/1.1 101 Switching Protocols\r\nSec-WebSocket-Accept: x\r\n\r\n"
Resp101 == SWITCHING_PROTOCOL_PREFIX \o <<83,101,99,45,87,101,98,83,111,99,107,101,116,45,65,99,99,101,112,116,58,32,120>> \o CRLFCRLF

\* "HTTP/1.1 400 Bad Request\r\n\r\n"
Resp400 == SubSeq(BAD_REQUEST, 1, 26) \o CRLFCRLF

FText == Frame(129, FALSE, "short", <<104, 105>>)
FMasked == Frame(130, TRUE, "short", <<1, 2, 3, 4, 5>>)
FEmpty == Frame(129, TRUE, "short", <<>>)
FFrag == Frame(1, FALSE, "short", <<97>>)
FCont == Frame(128, FALSE, "short", <<98>>)
FMid == Frame(130, TRUE, "16", <<7, 8, 9>>)
FLong == Frame(129, FALSE, "64", <<120, 121>>)
FRsv == Frame(193, FALSE, "short", <<122>>)

FrameScripts ==
    { <<FText>>,
      <<FMasked, FEmpty, FText>>,
      <<FFrag, FCont>>,
      <<FMid, FLong>>,
      <<FText, FRsv, FMasked>> }

\* `key` is the value of the request's Sec-WebSocket-Key header, <<>> if none.
Script(ctype, okreq, req, frames) ==
    [ctype |-> ctype, okreq |-> okreq, req |-> req, frames |-> frames,
     key |-> IF req = ReqPlain \/ req = ReqPost \/ req = ReqBadUri THEN <<107, 49>>
             ELSE IF req = ReqQuery THEN Key24
             ELSE IF req = ReqLongKey THEN Key25
             ELSE <<>>]

Setup(sc, h, dp) == [script |-> sc, handler |-> h, debug_pending |-> dp]

\* The connections studied: what the peer sends, which handler is
\* registered, and whether the endpoint forces every write through wbuf.
Setups ==
    { Setup(Script("ServerConnection", TRUE, ReqPlain, fs), "log", FALSE) : fs \in FrameScripts }
    \cup { Setup(Script("ServerConnection", TRUE, ReqPlain, <<FMasked, FEmpty, FText>>), "echo", FALSE),
           Setup(Script("ServerConnection", TRUE, ReqPlain, <<FText, FRsv, FMasked>>), "close", FALSE),
           Setup(Script("ServerConnection", TRUE, ReqPlain, <<FFrag, FRsv>>), "echo", TRUE),
           Setup(Script("ServerConnection", TRUE, ReqQuery, <<FMasked, FText>>), "close", FALSE) }
    \cup { Setup(Script("ServerConnection", FALSE, r, <<FText>>), "log", FALSE) :
             r \in {ReqPost, ReqBadUri, ReqNoKey, ReqLongKey} }
    \cup { Setup(Script("ServerConnection", FALSE, ReqNoKey, <<FText>>), "log", TRUE),
           Setup(Script("ClientConnection", TRUE, Resp101, <<FText, FFrag>>), "echo", FALSE),
           Setup(Script("ClientConnection", FALSE, Resp400, <<FText>>), "log", FALSE) }

FullStream(sc) == sc.req \o PeerEncodeAll(sc.frames)

\* The bytes the worker has received so far.
Delivered == SubSeq(FullStream(script), 1, Len(FullStream(script)) - Len(wire))

----------------------------------------------------------------------------
(* SpecConn: one connection, its worker, the threads that hold a           *)
(* WsResponse for it, and its peer.                                        *)

\* How many sends user threads issue on the kept WsResponse.
MaxUserSends == 1

\* The room the kernel's send buffer may have.
BigSpace == 1000
Spaces == {0, 3, BigSpace}

\* How many times the room in the kernel's send buffer changes on its own.
MaxKernelEvents == 1

UserPayloads == {<<111, 107>>}
UserStatuses == {4001}

\* add_client sends this before the connection is handed to its worker.
ClientHello ==
    <<71,69,84,32,47,32,72,84,84,80,47,49,46,49,13,10>> \o SEC_KEY_PREFIX
    \o <<65,66,67,68,69,70,71,72,73,74,75,76,77,78,79,80,81,82,83,84,85,86,61,61>> \o CRLFCRLF

\* Connection::new
NewConnection(ctype, debug_pending) ==
    [ctype |-> ctype, cstate |-> "NeedHandshake", rbuf |-> <<>>, wbuf |-> <<>>,
     debug_pending |-> debug_pending, last |-> now,
     out |-> <<>>, space |-> BigSpace, shut |-> FALSE, reset |-> FALSE, closed |-> FALSE,
     wmsgs |-> 0, wake |-> FALSE, winterest |-> FALSE,
     calls |-> <<>>, written |-> <<>>, ub |-> FALSE, usends |-> 0, kev |-> 0,
     mem |-> NoMem, lk |-> NoLock, num |-> NoNum]

ConnInitFrom(setups) ==
    /\ now = 0
    /\ \E su \in setups :
         /\ script = su.script
         /\ handler = su.handler
         /\ conn = [NewConnection(su.script.ctype, su.debug_pending) EXCEPT
                      !.last = 0,
                      !.out = IF su.script.ctype = "ClientConnection" THEN ClientHello ELSE <<>>]
         /\ wire = FullStream(su.script)
    /\ peerfin = FALSE
    /\ cpayload = <<>> /\ cmtype = "Text" /\ cbytes = <<>> /\ cphase = "off" /\ rx = <<>>
    /\ ws = [halt |-> FALSE] /\ cs = <<>> /\ rt = NoRuntime /\ ch = NoChannel /\ el = NoLoop /\ ut = NoCalls

ConnInit == ConnInitFrom(Setups)

\* One iteration of proc_read's loop whose socket_recv returns n > 0 bytes.
Recv(n) ==
    /\ ~conn.closed /\ ~conn.reset
    /\ n \in 1..Min(RECV_CHUNK, Len(wire))
    /\ conn' = proc_messages([conn EXCEPT !.last = now, !.rbuf = @ \o SubSeq(wire, 1, n)])
    /\ wire' = SubSeq(wire, n + 1, Len(wire))
    /\ UNCHANGED <<peerfin, script, handler, now, codecVars, wsVars>>

\* The iteration of proc_read whose socket_recv returns 0 or a hard error:
\* the connection is marked Closed, its socket closed, it is unlinked and freed.
RecvEof ==
    /\ ~conn.closed
    /\ (wire = <<>> /\ peerfin) \/ conn.reset \/ conn.shut
    /\ conn' = proc_read_closed(conn)
    /\ UNCHANGED <<wire, peerfin, script, handler, now, codecVars, wsVars>>

\* proc_wakeup: the wake pipe is drained and every pending Write message
\* re-registers the connection for read and write.  A Write message for a
\* connection that was already freed dereferences a dangling pointer.
ProcWakeup ==
    /\ conn.wake
    /\ conn' = IF conn.wmsgs = 0 THEN [conn EXCEPT !.wake = FALSE]
               ELSE IF conn.closed THEN [conn EXCEPT !.wake = FALSE, !.wmsgs = 0, !.ub = TRUE]
               ELSE [conn EXCEPT !.wake = FALSE, !.wmsgs = 0, !.winterest = TRUE]
    /\ UNCHANGED <<wire, peerfin, script, handler, now, codecVars, wsVars>>

\* A writable event: proc_write under the connection's lock.
ProcWrite ==
    /\ conn.winterest /\ ~conn.closed
    /\ conn.space > 0 \/ SockBroken(conn)
    /\ conn' = proc_connection_write(conn)
    /\ UNCHANGED <<wire, peerfin, script, handler, now, codecVars, wsVars>>

\* Whether some thread other than the worker holds a WsResponse: add_client
\* returns one, and a handler may keep a clone of the one it was given.
UserHolds == conn.ctype = "ClientConnection" \/ conn.calls # <<>>

\* WsResponse::send / sendb from a user thread.
UserSend(mtype, bytes) ==
    /\ UserHolds /\ conn.usends < MaxUserSends
    /\ conn' = [send_impl(conn, mtype, bytes).st EXCEPT !.usends = @ + 1]
    /\ UNCHANGED <<wire, peerfin, script, handler, now, codecVars, wsVars>>

\* WsResponse::close from a user thread.
UserClose(status) ==
    /\ UserHolds /\ conn.usends < MaxUserSends
    /\ conn' = [close(conn, status) EXCEPT !.usends = @ + 1]
    /\ UNCHANGED <<wire, peerfin, script, handler, now, codecVars, wsVars>>

\* The kernel's send buffer fills or drains.
KernelSpace(s) ==
    /\ ~conn.closed /\ s # conn.space /\ conn.kev < MaxKernelEvents
    /\ conn' = [conn EXCEPT !.space = s, !.kev = @ + 1]
    /\ UNCHANGED <<wire, peerfin, script, handler, now, codecVars, wsVars>>

\* The peer closes its sending side after its last byte.
PeerFin ==
    /\ wire = <<>> /\ ~peerfin
    /\ peerfin' = TRUE
    /\ UNCHANGED <<conn, wire, script, handler, now, codecVars, wsVars>>

\* The peer resets the connection.
PeerReset ==
    /\ ~conn.reset /\ ~conn.closed
    /\ conn' = [conn EXCEPT !.reset = TRUE]
    /\ UNCHANGED <<wire, peerfin, script, handler, now, codecVars, wsVars>>

ConnNext ==
    \/ \E n \in 1..RECV_CHUNK : Recv(n)
    \/ RecvEof
    \/ ProcWakeup
    \/ ProcWrite
    \/ PeerFin
    \/ PeerReset

SpecConn == ConnInit /\ [][ConnNext]_vars

----------------------------------------------------------------------------
(* Properties of the inbound path, checked under SpecConn.                 *)

IsPrefix(p, q) == Len(p) <= Len(q) /\ SubSeq(q, 1, Len(p)) = p

EndsWith(q, p) == Len(p) <= Len(q) /\ SubSeq(q, Len(q) - Len(p) + 1, Len(q)) = p

\* How often the byte pattern pat occurs in q.
Occ(pat, q) ==
    Cardinality({i \in 1..(Len(q) - Len(pat) + 1) :
                   q[i] = pat[1] /\ SubSeq(q, i, i + Len(pat) - 1) = pat})

\* Everything the connection has handed to the socket layer, sent or queued.
Emitted(st) == st.out \o st.wbuf

\* What the handler must be given for the frame f of the peer's script.
ExpectCall(f) == [fin |-> f.b0 >= 128, op |-> f.b0 % 128, msg |-> f.payload]

ExpectCalls(fs) == [i \in 1..Len(fs) |-> ExpectCall(fs[i])]

HasRsv(f) == (f.b0 \div 16) % 8 # 0

\* The number of leading frames of fs that lie completely within `avail`
\* bytes, not counting past a frame with a reserved bit.
RECURSIVE WholeFrames(_, _)
WholeFrames(fs, avail) ==
    IF fs = <<>> \/ HasRsv(Head(fs)) \/ Len(PeerEncode(Head(fs))) > avail THEN 0
    ELSE 1 + WholeFrames(Tail(fs), avail - Len(PeerEncode(Head(fs))))

\* The bytes of the first k frames of fs.
FrameBytes(fs, k) == PeerEncodeAll(SubSeq(fs, 1, k))

\* The bytes delivered after the upgrade request (or response).
DeliveredFrames(d) == SubSeq(d, Len(script.req) + 1, Len(d))

\* st holds exactly the decoding of the delivered bytes d: one call per whole
\* frame, with its unmasked payload, and the undecoded remainder in rbuf.
Decoded(st, d) ==
    LET rest == DeliveredFrames(d)
        k == WholeFrames(script.frames, Len(rest))
    IN /\ st.calls = SubSeq(ExpectCalls(script.frames), 1, k)
       /\ st.rbuf = SubSeq(rest, Len(FrameBytes(script.frames, k)) + 1, Len(rest))

\* C2: the handler calls of a connection are a growing prefix of the frames
\* in the order the peer put them on the wire, whatever the segmentation of
\* the reads and however many frames one read carries.
C2_WireOrder ==
    [][/\ IsPrefix(conn.calls, conn'.calls)
       /\ IsPrefix(conn'.calls, ExpectCalls(script'.frames))]_vars

\* Two different frames were delivered, and both reached the handler.
C2_Witness ==
    /\ Len(conn.calls) >= 2
    /\ conn.calls[1] # conn.calls[2]
    /\ conn.calls[2] = ExpectCall(script.frames[2])

Response101(key) == SWITCH_PROTOCOL \o AcceptKey(key) \o CRLFCRLF

\* A step in which a server-side connection in NeedHandshake comes to hold a
\* whole well-formed upgrade request.
C6_Step ==
    /\ conn.ctype = "ServerConnection" /\ conn.cstate = "NeedHandshake"
    /\ script.okreq
    /\ Len(wire') < Len(wire)
    /\ Len(Delivered') >= Len(script.req)

\* C6: when a server-side connection in NeedHandshake has buffered a
\* well-formed upgrade request, the 101 response is emitted exactly once,
\* cstate becomes HandshakeComplete, the request is removed from rbuf up to
\* and including the sentinel, and the bytes after it are decoded as frames
\* in the same pass.
C6_AsClaimed ==
    [][C6_Step =>
         /\ conn'.cstate = "HandshakeComplete"
         /\ Decoded(conn', Delivered')
         /\ IsPrefix(Emitted(conn) \o Response101(script.key), Emitted(conn'))
         /\ Occ(SWITCH_PROTOCOL, Emitted(conn')) = 1]_vars

\* The request buffered so far is one that the claim C7 calls malformed.
Malformed(buf) ==
    \/ ~IsPrefix(GET_PREFIX, buf)
    \/ \E i \in 5..Len(buf) :
         /\ ~UriChar(buf[i])
         /\ \A j \in 6..i : buf[j] \notin {32, 63, 13, 10}
    \/ /\ Len(buf) >= Len(script.req)
       /\ script.key = <<>> \/ Len(script.key) > 24

\* C7: when the buffered request of a server-side connection in
\* NeedHandshake does not begin with "GET /", has an illegal URI character,
\* or ends its headers without a key of at most 24 bytes, the 400 response is
\* written and the socket shut down, no 101 is emitted, and the connection
\* never becomes HandshakeComplete nor reaches the handler.
C7_AsClaimed ==
    [][(/\ conn.ctype = "ServerConnection" /\ conn.cstate = "NeedHandshake"
        /\ conn.rbuf # <<>> /\ Malformed(conn.rbuf))
       => /\ conn.shut
          /\ IsPrefix(BAD_REQUEST, Emitted(conn))
          /\ Occ(SWITCH_PROTOCOL, Emitted(conn')) = 0
          /\ conn'.cstate # "HandshakeComplete"
          /\ conn'.calls = <<>>]_vars

\* The frame at the head of rbuf has its two-byte base header buffered and a
\* reserved bit set.
RsvHead(st) ==
    /\ st.cstate = "HandshakeComplete"
    /\ Len(st.rbuf) >= 2
    /\ (st.rbuf[1] \div 16) % 8 # 0

\* The bytes of a close with status 1002.
Close1002 == <<136, 0, 136, 2, 3, 234>>

----------------------------------------------------------------------------
(* SpecSend: one connection whose WsResponse is used by other threads      *)
(* while the kernel's send buffer fills and drains.  The peer's bytes      *)
(* arrive message by message.                                              *)

SendSetups ==
    { Setup(Script("ServerConnection", TRUE, ReqPlain, <<FText>>), h, dp) :
        h \in {"log", "echo"}, dp \in BOOLEAN }
    \cup { Setup(Script("ClientConnection", TRUE, Resp101, <<FText>>), "log", dp) :
        dp \in BOOLEAN }

SendInit == ConnInitFrom(SendSetups)

\* A read that returns the rest of the handshake, or all there is.
RecvMessage ==
    \E n \in {Len(wire), Len(script.req) - Len(Delivered)} : Recv(n)

SendNext ==
    \/ RecvMessage
    \/ RecvEof
    \/ ProcWakeup
    \/ ProcWrite
    \/ \E mtype \in {"Text", "Binary"}, bytes \in UserPayloads : UserSend(mtype, bytes)
    \/ \E status \in UserStatuses : UserClose(status)
    \/ \E s \in Spaces : KernelSpace(s)
    \/ PeerFin
    \/ PeerReset

SpecSend == SendInit /\ [][SendNext]_vars

----------------------------------------------------------------------------
(* SpecCodec: a payload is sent with send or sendb on one connection and   *)
(* the bytes are read, 256 at a time, by the connection at the other end.  *)

PayloadLens == {0, 1, 124, 125, 126, 127, 65535, 65536}

Payload(n) == [i \in 1..n |-> (7 * i + n) % 256]

CodecInit ==
    /\ now = 0 /\ handler = "log"
    /\ cpayload \in {Payload(n) : n \in PayloadLens}
    /\ cmtype \in {"Text", "Binary"}
    /\ cbytes = <<>> /\ cphase = "init"
    /\ conn = [NewConnection("ServerConnection", FALSE) EXCEPT !.cstate = "HandshakeComplete"]
    /\ rx = [NewConnection("ClientConnection", FALSE) EXCEPT !.cstate = "HandshakeComplete"]
    /\ wire = <<>> /\ peerfin = FALSE
    /\ script = Script("ServerConnection", TRUE, ReqPlain, <<>>)
    /\ ws = [halt |-> FALSE] /\ cs = <<>> /\ rt = NoRuntime /\ ch = NoChannel /\ el = NoLoop /\ ut = NoCalls

\* WsResponse::send (Text) or sendb (Binary) of the payload.
CodecSend ==
    /\ cphase = "init"
    /\ conn' = send_impl(conn, cmtype, cpayload).st
    /\ cbytes' = conn'.out \o conn'.wbuf
    /\ cphase' = "sent"
    /\ UNCHANGED <<cpayload, cmtype, rx, wire, peerfin, script, handler, now, wsVars>>

\* One iteration of the receiver's proc_read loop.
CodecRecv ==
    /\ cphase = "sent" /\ cbytes # <<>>
    /\ LET n == Min(RECV_CHUNK, Len(cbytes)) IN
         /\ rx' = proc_messages([rx EXCEPT !.last = now, !.rbuf = @ \o SubSeq(cbytes, 1, n)])
         /\ cbytes' = SubSeq(cbytes, n + 1, Len(cbytes))
    /\ UNCHANGED <<cpayload, cmtype, cphase, conn, wire, peerfin, script, handler, now, wsVars>>

CodecNext == CodecSend \/ CodecRecv

SpecCodec == CodecInit /\ [][CodecNext]_vars

\* C4: the bytes produced by send(P) decode to exactly one frame with fin
\* set, op 0x1 and msg P, those of sendb(P) to one with op 0x2, no byte is
\* left over, and nothing is decoded before the last byte has arrived.
C4_RoundTrip ==
    cphase = "sent" =>
        IF cbytes = <<>>
        THEN /\ rx.calls = << [fin |-> TRUE,
                               op |-> IF cmtype = "Text" THEN 1 ELSE 2,
                               msg |-> cpayload] >>
             /\ rx.rbuf = <<>>
        ELSE rx.calls = <<>>

\* A text payload of 126 bytes, the shortest with a 16-bit length, came
\* back whole.
C4_Witness ==
    /\ cphase = "sent" /\ cbytes = <<>> /\ cmtype = "Text"
    /\ Len(cpayload) = 126
    /\ Len(rx.calls) = 1 /\ rx.calls[1].msg = cpayload

\* C5: a frame emitted by send or sendb starts with 0x81 or 0x82, has the
\* mask bit clear, and carries its length in the smallest encoding: one byte
\* up to 125, 126 and 16 bits big-endian up to 65535, 127 and 64 bits
\* big-endian above; the payload follows unchanged.
C5_FrameHeader ==
    cphase = "sent" =>
        LET e == conn.out \o conn.wbuf
            n == Len(cpayload)
            hdr == IF n <= 125 THEN 2 ELSE IF n <= 65535 THEN 4 ELSE 10
        IN /\ e[1] = (IF cmtype = "Text" THEN 129 ELSE 130)
           /\ e[2] < 128
           /\ n <= 125 => e[2] = n
           /\ (n > 125 /\ n <= 65535) => (e[2] = 126 /\ e[3] * 256 + e[4] = n)
           /\ n > 65535 =>
                /\ e[2] = 127
                /\ \A i \in 3..7 : e[i] = 0
                /\ e[8] * 65536 + e[9] * 256 + e[10] = n
           /\ Len(e) = hdr + n
           /\ SubSeq(e, hdr + 1, Len(e)) = cpayload

\* A binary payload of 125 bytes, the longest with a one-byte length, was
\* sent.
C5_Witness ==
    /\ cphase = "sent" /\ cmtype = "Binary"
    /\ Len(cpayload) = 125
    /\ conn.out[1] = 130 /\ conn.out[2] = 125

----------------------------------------------------------------------------
(* SpecWs: a started endpoint, its workers and their connection lists, the *)
(* file descriptors and allocations it owns, the clock and the stale       *)
(* sweeper, up to the return of stop().                                    *)

\* WsConfig.threads
Threads == 2

\* How many sockets are accepted or connected in one run, and how many of
\* them are open at the same time.
MaxConns == 2
MaxLive == 1

\* check_stale runs at most once in this many microseconds.
SWEEP_PERIOD == 5000000

\* WsConfig.timeout_micros, as configured in test_ws1.
TimeoutMicros == 5000000

\* The clock when the endpoint starts, how far one Tick moves it, and where
\* it stops.
StartMicros == 10000000
TickMicros == 6000000
MaxNow == 16000000

Workers == 0..(Threads - 1)
ConnIds == 1..MaxConns

\* add_server makes one Server Connection per worker; worker w's has id -w.
ListenerId(w) == 0 - w
AllIds == (1 - Threads)..MaxConns

Fd(k, n) == [k |-> k, n |-> n]
NoFd == Fd("none", 0)
ListenFd == Fd("listen", 0)
SockFd(id) == Fd("socket", id)
WorkerFds(w) == {Fd("wakeup_read", w), Fd("wakeup_write", w), Fd("mplex", w)}

\* Descriptors of the process that are not the endpoint's.
ForeignFds == {Fd("foreign", 0)}

ConnBox(id) == [k |-> "Connection", n |-> id]
EventBuf(w) == [k |-> "events", n |-> w]

NoConn ==
    [ctype |-> "None", closed |-> TRUE, worker |-> -1, addr |-> 0, wake |-> FALSE, wmsgs |-> 0]

\* A Connection of the endpoint: ConnectionInner, its socket, the worker
\* whose channel and wake pipe it was built with (inner.send, inner.wakeup),
\* the address of its box, what its peer will still send (one read each) and
\* whether the peer has closed.
WsConnection(ctype, debug_pending, w, a, segs) ==
    [worker |-> w, addr |-> a, segs |-> segs, fin |-> FALSE]
        @@ NewConnection(ctype, debug_pending)

\* The worker that receives a Connection's Write messages and wake bytes:
\* the one whose sender and wake pipe the Connection holds.
WakeTarget(c) == c.worker

InList(l, id) == \E i \in 1..Len(l) : l[i] = id

\* WebSocket::remove_from_list
remove_from_list(l, id) == SelectSeq(l, LAMBDA x : x # id)

\* WebSocket::update_head: link at the head of the worker's list.
update_head(l, id) == <<id>> \o l

\* WebSocket::check_stale for worker w.
check_stale(w, W, C) ==
    IF now - W.last_check[w] < SWEEP_PERIOD THEN [ws |-> W, cs |-> C]
    ELSE [ws |-> [W EXCEPT !.last_check[w] = now],
          cs |-> [id \in DOMAIN C |->
                    IF /\ InList(W.list[w], id)
                       /\ now - C[id].last > W.timeout_micros
                       /\ C[id].ctype # "Server"
                    THEN close_cleanly(C[id], 1016)
                    ELSE C[id]]]

\* check_stale in every worker from w on: each runs it once per loop pass.
RECURSIVE StaleFrom(_, _, _)
StaleFrom(w, W, C) ==
    IF w >= Threads THEN [ws |-> W, cs |-> C]
    ELSE LET r == check_stale(w, W, C) IN StaleFrom(w + 1, r.ws, r.cs)

\* The end of worker w's pass through its event loop.
EndOfPass(w, W, C) ==
    LET r == check_stale(w, W, C) IN ws' = r.ws /\ cs' = r.cs

WsFixed == <<conn, wire, peerfin, script, handler, codecVars, rt, ch, el, ut>>

\* How many times stop() is called again after it has returned.
MaxStopCalls == 2

\* A faulty Runtime::stop: the halt flag is not tested.
RuntimeStopUnchecked(halt) == "Ok"

\* What Runtime::stop returns: NotInitialized once halt is set.
RuntimeStop(halt) == IF halt THEN "NotInitialized" ELSE "Ok"

\* What WebSocket::stop returns: the runtime's answer, Ok without a runtime.
WsStopResult(W) == IF W.started THEN RuntimeStop(W.rt_halt) ELSE "Ok"

\* The state after WebSocket::new and register_handler, and after start if
\* `started`.  Without start there is no runtime, no worker and no
\* descriptor; add_server and add_client are then not called.
WsInit ==
    /\ now = StartMicros
    /\ handler \in {"log", "echo"}
    /\ \E dp \in BOOLEAN, started \in BOOLEAN :
         ws = [halt |-> FALSE, stopped |-> FALSE, listening |-> FALSE, itt |-> 0,
               started |-> started, rt_halt |-> FALSE, rets |-> <<>>,
               debug_pending |-> dp, timeout_micros |-> TimeoutMicros,
               fds |-> IF started THEN ForeignFds \cup UNION {WorkerFds(w) : w \in Workers}
                       ELSE ForeignFds,
               allocs |-> IF started THEN {EventBuf(w) : w \in Workers} ELSE {},
               exited |-> IF started THEN {} ELSE Workers,
               reg |-> [w \in Workers |-> {}],
               hthreads |-> [id \in ConnIds |-> {}],
               list |-> [w \in Workers |-> <<>>],
               last_check |-> [w \in Workers |-> 0],
               ub |-> FALSE]
    /\ cs = [id \in AllIds |-> NoConn] /\ rt = NoRuntime /\ ch = NoChannel /\ el = NoLoop /\ ut = NoCalls
    /\ conn = NoConn /\ wire = <<>> /\ peerfin = FALSE
    /\ script = Script("ServerConnection", TRUE, ReqPlain, <<>>)
    /\ cpayload = <<>> /\ cmtype = "Text" /\ cbytes = <<>> /\ cphase = "off" /\ rx = <<>>

FreeIds == {id \in ConnIds : cs[id].ctype = "None"}

\* The Connection id exists and has not been freed.
Alive(id) == cs[id].ctype # "None" /\ ~cs[id].closed

\* A further socket can be opened.
Room == FreeIds # {} /\ Cardinality({id \in ConnIds : Alive(id)}) < MaxLive

\* Where the allocator may place the box of the new Connection id: at an
\* address never used before, or at the address of a box that was freed.
BoxAddrs(id) ==
    {id} \cup {cs[x].addr : x \in {y \in ConnIds : /\ cs[y].ctype # "None" /\ cs[y].closed
                                                  /\ \A z \in ConnIds :
                                                        Alive(z) => cs[z].addr # cs[y].addr}}

\* add_server: listen, then hand one Server Connection to every worker and
\* wait until each has taken it into its list (proc_wakeup, Read).
AddServer ==
    /\ ws.started /\ ~ws.halt /\ ~ws.listening
    /\ LET W == [ws EXCEPT !.listening = TRUE,
                           !.fds = @ \cup {ListenFd},
                           !.allocs = @ \cup {ConnBox(ListenerId(w)) : w \in Workers},
                           !.list = [w \in Workers |-> update_head(@[w], ListenerId(w))]]
           C == [id \in AllIds |->
                   IF id <= 0 THEN WsConnection("Server", ws.debug_pending, 0 - id, id, <<>>)
                   ELSE cs[id]]
           r == StaleFrom(0, W, C)
       IN ws' = r.ws /\ cs' = r.cs
    /\ UNCHANGED <<now, WsFixed>>

\* add_client: connect, send the upgrade request, hand the Connection to the
\* next worker in turn and wait until it has registered and linked it
\* (proc_wakeup, Read).
AddClient ==
    /\ ws.started /\ ~ws.halt /\ Room
    /\ \E a \in BoxAddrs(Least(FreeIds)) :
         LET id == Least(FreeIds)
             w == ws.itt % Threads
             W == [ws EXCEPT !.itt = @ + 1,
                             !.fds = @ \cup {SockFd(id)},
                             !.allocs = @ \cup {ConnBox(id)},
                             !.reg[w] = @ \cup {id},
                             !.list[w] = update_head(@, id)]
             C == [cs EXCEPT ![id] =
                     [WsConnection("ClientConnection", ws.debug_pending, w, a,
                                   <<Resp101, PeerEncode(FText)>>)
                        EXCEPT !.out = ClientHello]]
         IN EndOfPass(w, W, C)
    /\ UNCHANGED <<now, WsFixed>>

\* proc_connection on the listener, then proc_accept: the listener is
\* registered with every worker; the worker whose turn it is accepts a
\* socket, registers it with its own multiplexer and links its Connection.
Accept ==
    /\ ~ws.halt /\ ws.listening /\ Room
    /\ \E a \in BoxAddrs(Least(FreeIds)) :
         LET id == Least(FreeIds)
             w == ws.itt % Threads
             W == [ws EXCEPT !.itt = @ + 1,
                             !.fds = @ \cup {SockFd(id)},
                             !.allocs = @ \cup {ConnBox(id)},
                             !.reg[w] = @ \cup {id},
                             !.list[w] = update_head(@, id)]
             C == [cs EXCEPT ![id] =
                     WsConnection("ServerConnection", ws.debug_pending, w, a,
                                  <<ReqPlain, PeerEncode(FText)>>)]
         IN EndOfPass(w, W, C)
    /\ UNCHANGED <<now, WsFixed>>

Linked(id) == cs[id].ctype \in {"ServerConnection", "ClientConnection"} /\ ~cs[id].closed

\* The thread of worker w has run proc_read on the Connection id, which
\* left it as `after`: w is noted if the handler was invoked.
WsHandled(w, id, after) ==
    EndOfPass(w,
              [ws EXCEPT !.hthreads[id] =
                           IF Len(after.calls) > Len(cs[id].calls) THEN @ \cup {w} ELSE @],
              [cs EXCEPT ![id] = after])

\* A readable event for the Connection id in worker w's multiplexer, then
\* proc_read: the next message of the peer is read and parsed.
WsRecv(w, id) ==
    /\ ~ws.halt /\ w \notin ws.exited /\ id \in ws.reg[w]
    /\ Linked(id) /\ cs[id].segs # <<>>
    /\ WsHandled(w, id, proc_messages([cs[id] EXCEPT !.last = now,
                                                     !.rbuf = @ \o Head(cs[id].segs),
                                                     !.segs = Tail(@)]))
    /\ UNCHANGED <<now, WsFixed>>

\* proc_read at end of stream: the Connection is marked Closed, its socket
\* closed, it is unlinked and its box freed.
WsRecvEof(id) ==
    /\ ~ws.halt /\ Linked(id)
    /\ (cs[id].segs = <<>> /\ cs[id].fin) \/ cs[id].shut
    /\ LET w == cs[id].worker
           W == [ws EXCEPT !.fds = @ \ {SockFd(id)},
                           !.allocs = @ \ {ConnBox(id)},
                           !.reg = [v \in Workers |-> @[v] \ {id}],
                           !.list[w] = remove_from_list(@, id)]
           C == [cs EXCEPT ![id] = proc_read_closed(@)]
       IN EndOfPass(w, W, C)
    /\ UNCHANGED <<now, WsFixed>>

\* The peer closes its side; what it had not sent is never sent.
WsPeerFin(id) ==
    /\ Linked(id) /\ ~cs[id].fin
    /\ cs' = [cs EXCEPT ![id] = [@ EXCEPT !.fin = TRUE, !.segs = <<>>]]
    /\ UNCHANGED <<ws, now, WsFixed>>

\* proc_wakeup of worker w: every queued Write message re-registers its
\* Connection with w's multiplexer.  The message holds a raw pointer: if the
\* Connection was freed in the meantime, what the freed memory holds is
\* registered.  If the allocator has placed a later Connection there, that
\* one is registered with w's multiplexer; if not, a freed handle is
\* registered and, on failure, closed, which may hit no descriptor or one
\* that is not the endpoint's.
WsProcWakeup(w) ==
    /\ ~ws.halt /\ w \notin ws.exited
    /\ \E id \in ConnIds : WakeTarget(cs[id]) = w /\ cs[id].wake
    /\ LET queued == {id \in ConnIds : WakeTarget(cs[id]) = w /\ cs[id].wmsgs > 0}
           dangling == {id \in queued : cs[id].closed}
           C == [id \in AllIds |->
                   IF id > 0 /\ WakeTarget(cs[id]) = w
                   THEN (IF id \in queued /\ ~cs[id].closed
                         THEN [cs[id] EXCEPT !.wake = FALSE, !.wmsgs = 0, !.winterest = TRUE]
                         ELSE [cs[id] EXCEPT !.wake = FALSE, !.wmsgs = 0])
                   ELSE cs[id]]
           W == [ws EXCEPT !.reg[w] = @ \cup {id \in queued : ~cs[id].closed}]
           reused == {y \in ConnIds : Alive(y) /\ \E x \in dangling : cs[x].addr = cs[y].addr}
       IN IF dangling = {} THEN EndOfPass(w, W, C)
          ELSE IF reused # {}
          THEN EndOfPass(w, [W EXCEPT !.ub = TRUE, !.reg[w] = @ \cup reused],
                         [id \in AllIds |->
                            IF id \in reused THEN [C[id] EXCEPT !.winterest = TRUE] ELSE C[id]])
          ELSE \E victim \in ForeignFds \cup {NoFd} :
                 EndOfPass(w, [W EXCEPT !.ub = TRUE, !.fds = @ \ {victim}], C)
    /\ UNCHANGED <<now, WsFixed>>

\* A writable event: proc_write.
WsProcWrite(id) ==
    /\ ~ws.halt /\ Linked(id) /\ cs[id].winterest
    /\ EndOfPass(cs[id].worker, ws, [cs EXCEPT ![id] = proc_connection_write(@)])
    /\ UNCHANGED <<now, WsFixed>>

\* A pass of worker w's loop in which no event is ready and the sweep is due.
Sweep(w) ==
    /\ ~ws.halt /\ w \notin ws.exited
    /\ now - ws.last_check[w] >= SWEEP_PERIOD
    /\ EndOfPass(w, ws, cs)
    /\ UNCHANGED <<now, WsFixed>>

\* Time passes.
Tick ==
    /\ ~ws.stopped /\ now + TickMicros <= MaxNow
    /\ now' = now + TickMicros
    /\ UNCHANGED <<ws, cs, WsFixed>>

\* stop(): set halt, wake the workers and stop the runtime, which sets its
\* own halt flag and sends the Halt messages ...
Stop ==
    /\ ~ws.halt
    /\ ws' = [ws EXCEPT !.halt = TRUE, !.rt_halt = ws.started]
    /\ UNCHANGED <<cs, now, WsFixed>>

\* ... each worker leaves its loop, frees the Connections on its list,
\* closes their sockets (the listener once, in worker 0), its wake pipe and
\* multiplexer and releases its event buffer ...
WorkerExit(w) ==
    /\ ws.halt /\ w \notin ws.exited
    /\ LET l == ws.list[w]
           socks == {IF cs[l[i]].ctype # "Server" THEN SockFd(l[i])
                     ELSE IF w = 0 THEN ListenFd ELSE NoFd : i \in 1..Len(l)}
       IN /\ ws' = [ws EXCEPT !.fds = (@ \ socks) \ WorkerFds(w),
                              !.allocs = (@ \ {ConnBox(l[i]) : i \in 1..Len(l)}) \ {EventBuf(w)},
                              !.reg = [v \in Workers |->
                                         IF v = w THEN {} ELSE @[v] \ {l[i] : i \in 1..Len(l)}],
                              !.list[w] = <<>>,
                              !.exited = @ \cup {w}]
          /\ cs' = [id \in AllIds |->
                      IF InList(l, id) THEN [cs[id] EXCEPT !.closed = TRUE] ELSE cs[id]]
    /\ UNCHANGED <<now, WsFixed>>

\* ... and stop() returns once the runtime has joined every worker.
StopReturns ==
    /\ ws.halt /\ ws.exited = Workers /\ ~ws.stopped
    /\ ws' = [ws EXCEPT !.stopped = TRUE, !.rets = Append(@, "Ok")]
    /\ UNCHANGED <<cs, now, WsFixed>>

\* A later call of stop(): halt is set again, a byte is sent to every wake
\* pipe (they are closed: the send fails and is only logged), and the
\* runtime's stop decides the result.
StopAgain ==
    /\ ws.stopped /\ Len(ws.rets) <= MaxStopCalls
    /\ ws' = [ws EXCEPT !.halt = TRUE, !.rets = Append(@, WsStopResult(ws))]
    /\ UNCHANGED <<cs, now, WsFixed>>

WsNext ==
    \/ AddServer
    \/ AddClient
    \/ Accept
    \/ \E w \in Workers, id \in ConnIds : WsRecv(w, id)
    \/ \E id \in ConnIds : WsRecvEof(id)
    \/ \E id \in ConnIds : WsPeerFin(id)
    \/ \E w \in Workers : WsProcWakeup(w)
    \/ \E id \in ConnIds : WsProcWrite(id)
    \/ \E w \in Workers : Sweep(w)
    \/ Tick
    \/ Stop
    \/ \E w \in Workers : WorkerExit(w)
    \/ StopReturns
    \/ StopAgain

SpecWs == WsInit /\ [][WsNext]_vars

----------------------------------------------------------------------------
(* Properties of the endpoint, checked under SpecWs.                       *)

\* C1: once stop() has returned, every descriptor the endpoint opened is
\* closed and every Connection and event buffer is freed: the descriptors
\* and allocations are those from before the endpoint was created.
C1_AsClaimed == ws.stopped => (ws.fds = ForeignFds /\ ws.allocs = {})

\* The bytes of a close with status 1016.
Close1016 == <<136, 0, 136, 2, 3, 248>>

\* Worker w's sweeper ran in this step.
SweepRan(w) == ws'.last_check[w] # ws.last_check[w]

\* The Connection id was linked, idle for longer than the timeout, and not
\* the subject of the event handled in this step.
StaleUntouched(id) ==
    /\ cs[id].ctype \in {"ServerConnection", "ClientConnection"}
    /\ ~cs[id].closed /\ ~cs'[id].closed
    /\ cs'[id].segs = cs[id].segs
    /\ now - cs[id].last > ws.timeout_micros

\* The sweeper has closed the Connection id with status 1016.
Swept(id) ==
    /\ cs[id].ctype \in {"ServerConnection", "ClientConnection"}
    /\ cs[id].shut
    /\ EndsWith(Emitted(cs[id]), Close1016)

\* C10: when a worker's sweeper runs, every connection of its list that is
\* not a listener and has been idle for longer than timeout_micros has its
\* socket shut down, after a close frame with status 1016 if its handshake
\* was complete and its socket usable; the handler is not invoked for a
\* swept connection afterwards; a listener is never closed by the sweeper.
C10_AsClaimed ==
    [][/\ \A w \in Workers : \A id \in ConnIds :
            (SweepRan(w) /\ InList(ws.list[w], id) /\ StaleUntouched(id))
            => /\ cs'[id].shut
               /\ (cs[id].cstate = "HandshakeComplete" /\ ~SockBroken(cs[id]))
                    => EndsWith(Emitted(cs'[id]), Close1016)
       /\ \A id \in ConnIds : Swept(id) => cs'[id].calls = cs[id].calls
       /\ \A w \in Workers :
            cs'[ListenerId(w)].ctype = "Server"
            => ~cs'[ListenerId(w)].shut /\ Emitted(cs'[ListenerId(w)]) = <<>>]_vars

C12_AsClaimed ==
    \A id \in ConnIds :
        Alive(id) => /\ \A w \in Workers : id \in ws.reg[w] => w = cs[id].worker
                     /\ ws.hthreads[id] \subseteq {cs[id].worker}


----------------------------------------------------------------------------
(* The outbound byte stream, checked under SpecSend.                       *)

\* What add_client sent on the socket before the Connection had a worker.
Hello(st) == IF st.ctype = "ClientConnection" THEN ClientHello ELSE <<>>

\* C13: whatever the socket answers (all, a part, EAGAIN) and whether or not
\* debug_pending forces every write through wbuf, the bytes handed to the
\* socket are a prefix of the messages given to writeb, concatenated in call
\* order, and wbuf holds the bytes that follow them; until a send has failed
\* nothing is missing, so the stream is the same with debug_pending as
\* without.
C13_WriteOrder ==
    /\ IsPrefix(conn.out, Hello(conn) \o conn.written)
    /\ IsPrefix(Emitted(conn), Hello(conn) \o conn.written)
    /\ ~conn.shut => Emitted(conn) = Hello(conn) \o conn.written

\* A send took the frame header and the first byte of the payload; the
\* second byte waits in wbuf.
C13_Witness ==
    /\ ~conn.debug_pending /\ ~conn.shut /\ conn.usends = 1
    /\ conn.wbuf = <<107>> /\ EndsWith(conn.out, <<129, 2, 111>>)
    /\ EndsWith(conn.written, <<129, 2, 111, 107>>)


----------------------------------------------------------------------------
(* The client handshake, checked under SpecConn.                           *)

\* The 0-based indices at which a \r\n\r\n ends in d.
Terminators(d) == {i \in 3..(Len(d) - 1) : SentinelAt(d, i)}

\* d is a whole response with the status line of a successful upgrade.
Upgraded(d) == IsPrefix(SWITCHING_PROTOCOL_PREFIX, d) /\ Terminators(d) # {}

\* What follows the first terminator of d.
AfterTerminator(d) == SubSeq(d, Least(Terminators(d)) + 2, Len(d))

\* C14: a ClientConnection is in HandshakeComplete only if the bytes it has
\* received begin with "HTTP/1.1 101 Switching Protocols\r\n" and contain
\* \r\n\r\n, and in NeedHandshake only if they do not; on completion the bytes
\* up to and including the terminator are removed and the rest is left for
\* frame decoding, whatever the Sec-WebSocket-Accept value; with any other
\* response it stays in NeedHandshake with the handler never invoked.
C14_ClientHandshake ==
    conn.ctype = "ClientConnection" =>
        /\ conn.cstate = "HandshakeComplete" =>
             /\ Upgraded(Delivered)
             /\ EndsWith(AfterTerminator(Delivered), conn.rbuf)
             /\ conn.calls = <<>> => conn.rbuf = AfterTerminator(Delivered)
        /\ conn.cstate = "NeedHandshake" =>
             /\ ~Upgraded(Delivered)
             /\ conn.rbuf = Delivered
             /\ conn.calls = <<>>
        /\ ~Upgraded(Delivered) => conn.calls = <<>> /\ conn.cstate # "HandshakeComplete"

\* A client connection completed its handshake on a response whose accept
\* value is not the one its key calls for, a frame has been decoded and the
\* next frame is buffered in part.
C14_Witness ==
    /\ conn.ctype = "ClientConnection" /\ conn.cstate = "HandshakeComplete"
    /\ script.req = Resp101
    /\ Len(conn.calls) = 1 /\ conn.rbuf # <<>>


----------------------------------------------------------------------------
(* SpecRt: a Runtime (runtime.rs), the thread that owns it, its worker     *)
(* threads, the message channel they share and the tasks given to          *)
(* execute().  A step of a thread is one statement, or one section under   *)
(* the runtime's lock.                                                     *)

\* The largest max_threads configured, how many tasks are submitted and how
\* many calls are made on a runtime that was stopped.
MaxThreads == 3
MaxTasks == 2
MaxRejected == 2

\* RuntimeConfig
RtConfigs == {c \in [min : 0..MaxThreads, max : 1..MaxThreads] : c.min <= c.max}

\* Worker threads are numbered by Runtime.counter: start() spawns
\* min_threads of them and each task dequeue at most one more.
WorkerIds == 1..(MaxThreads + MaxTasks)
TaskIds == 1..MaxTasks

\* What the closure of task t returns.
TaskValue(t) == 100 + t

\* Message::Task and Message::Halt
TaskMsg(t) == [k |-> "Task", t |-> t]
HaltMsg == [k |-> "Halt", t |-> 0]

\* n Halt messages.
Halts(n) == [i \in 1..n |-> HaltMsg]

\* Runtime::new
RuntimeNew(c) ==
    [min |-> c.min, max |-> c.max,
     total_workers |-> c.min, waiting_workers |-> 0, halt |-> FALSE,
     jhs |-> {}, counter |-> 0, queue |-> <<>>,
     wk |-> [w \in WorkerIds |-> [pc |-> "unborn", task |-> 0, child |-> 0]],
     task |-> [t \in TaskIds |->
                 [accepted |-> FALSE, runs |-> 0, by |-> {}, flag |-> FALSE,
                  reply |-> <<>>, got |-> <<>>]],
     owner |-> "idle", tospawn |-> 0, ochild |-> 0,
     starts |-> 0, started |-> FALSE, stopped |-> FALSE, rejected |-> 0,
     lastret |-> [op |-> "new", res |-> "Ok"],
     calm |-> FALSE, late |-> {}, dead |-> FALSE]

RtFixed == <<conn, wire, peerfin, script, handler, now, codecVars, ws, cs, ch, el, ut>>

RtInitFrom(configs) ==
    /\ \E c \in configs : rt = RuntimeNew(c)
    /\ now = 0 /\ handler = "log"
    /\ conn = NoConn /\ wire = <<>> /\ peerfin = FALSE
    /\ script = Script("ServerConnection", TRUE, ReqPlain, <<>>)
    /\ cpayload = <<>> /\ cmtype = "Text" /\ cbytes = <<>> /\ cphase = "off" /\ rx = <<>>
    /\ ws = [halt |-> FALSE] /\ cs = <<>> /\ ch = NoChannel /\ el = NoLoop /\ ut = NoCalls

RtInit == RtInitFrom(RtConfigs)

\* The threads that were spawned, and those that have not ended.
Born(S) == {w \in WorkerIds : S.wk[w].pc # "unborn"}
Live(S) == {w \in WorkerIds : S.wk[w].pc \notin {"unborn", "done"}}

\* Every worker start() set out to spawn is blocked in recv and nothing
\* else is going on.
AllMinWaiting(S) ==
    /\ S.started /\ S.owner = "idle" /\ ~S.halt /\ ~S.dead
    /\ S.total_workers = S.min /\ S.waiting_workers = S.min
    /\ \A w \in Live(S) : S.wk[w].pc = "recv"

\* What start(), execute() and stop() answer once halt is set.
Refused(halt) == IF halt THEN "NotInitialized" ELSE "Ok"

\* A faulty check: the call goes ahead whatever halt is.
RefusedNever(halt) == "Ok"

\* The halt test of start() and execute(), under the read lock.
NotHalted(halt) == IF halt THEN "NotInitialized" ELSE "Ok"

\* A call on the runtime has returned res.
Returned(S, op, res) == [S EXCEPT !.lastret = [op |-> op, res |-> res]]

\* A call was refused.
Rejected(S, op) ==
    [S EXCEPT !.lastret = [op |-> op, res |-> "NotInitialized"], !.rejected = @ + 1]

\* The spawnj of Runtime::thread by the thread `by` (0 is the owner): the
\* next ticket is drawn and the new thread begins at the top of its loop.
spawnj(S, by) ==
    IF by = 0
    THEN [S EXCEPT !.counter = @ + 1, !.wk[S.counter + 1].pc = "top",
                   !.ochild = S.counter + 1, !.owner = "start_insert"]
    ELSE [S EXCEPT !.counter = @ + 1, !.wk[S.counter + 1].pc = "top",
                   !.wk[by].child = S.counter + 1, !.wk[by].pc = "insert"]

\* start(): the halt test, then min_threads calls of thread().
RtStart ==
    /\ ~rt.dead /\ rt.owner = "idle"
    /\ rt' = IF NotHalted(rt.halt) # "Ok" THEN Rejected(rt, "start")
             ELSE IF rt.min = 0
                  THEN [Returned(rt, "start", "Ok") EXCEPT !.starts = @ + 1, !.started = TRUE]
                  ELSE [rt EXCEPT !.starts = @ + 1, !.owner = "start", !.tospawn = rt.min]
    /\ rt.halt => rt.rejected < MaxRejected
    /\ ~rt.halt => rt.starts = 0
    /\ UNCHANGED RtFixed

\* thread() called by start(): spawnj ...
RtStartSpawn ==
    /\ ~rt.dead /\ rt.owner = "start"
    /\ rt' = spawnj(rt, 0)
    /\ UNCHANGED RtFixed

\* ... and, under the lock, the insertion of the join handle.
RtStartInsert ==
    /\ ~rt.dead /\ rt.owner = "start_insert"
    /\ rt' = IF rt.tospawn = 1
             THEN [Returned(rt, "start", "Ok") EXCEPT
                     !.jhs = @ \cup {rt.ochild}, !.ochild = 0, !.tospawn = 0,
                     !.owner = "idle", !.started = TRUE]
             ELSE [rt EXCEPT !.jhs = @ \cup {rt.ochild}, !.ochild = 0,
                             !.tospawn = @ - 1, !.owner = "start"]
    /\ UNCHANGED RtFixed

\* The tasks execute() has not been given yet.
NewTasks == {t \in TaskIds : ~rt.task[t].accepted}

\* execute(): the halt test, then a Task message with the closure, the
\* reply sender and the completion flag.
RtExecute ==
    /\ ~rt.dead /\ rt.owner = "idle"
    /\ rt.halt => rt.rejected < MaxRejected
    /\ ~rt.halt => NewTasks # {}
    /\ rt' = IF NotHalted(rt.halt) # "Ok" THEN Rejected(rt, "execute")
             ELSE [Returned(rt, "execute", "Ok") EXCEPT
                     !.queue = Append(@, TaskMsg(Least(NewTasks))),
                     !.task[Least(NewTasks)].accepted = TRUE,
                     !.calm = IF NewTasks = TaskIds THEN AllMinWaiting(rt) ELSE @]
    /\ UNCHANGED RtFixed

\* stop(): under the write lock, the halt test and halt = true ...
RtStop ==
    /\ ~rt.dead /\ rt.owner = "idle"
    /\ rt.halt => rt.rejected < MaxRejected
    /\ rt' = IF Refused(rt.halt) # "Ok" THEN Rejected(rt, "stop")
             ELSE [rt EXCEPT !.halt = TRUE, !.owner = "halts"]
    /\ UNCHANGED RtFixed

\* ... max_threads Halt messages ...
RtStopHalts ==
    /\ ~rt.dead /\ rt.owner = "halts"
    /\ rt' = [rt EXCEPT !.queue = @ \o Halts(rt.max), !.owner = "join"]
    /\ UNCHANGED RtFixed

\* ... and a join of every thread whose handle the walk over the join
\* table meets.  The walk holds no lock: a handle inserted while it is
\* under way may be passed by.
RtStopJoin ==
    /\ ~rt.dead /\ rt.owner = "join"
    /\ \A w \in rt.jhs \ rt.late : rt.wk[w].pc = "done"
    /\ rt' = [Returned(rt, "stop", "Ok") EXCEPT !.owner = "idle", !.stopped = TRUE]
    /\ UNCHANGED RtFixed

\* A faulty contraction test: one waiting worker too many is kept.
TrimLate(waiting_workers, min) == waiting_workers > min + 1

\* The contraction test at the top of the loop.
Trim(waiting_workers, min) == waiting_workers > min

\* The top of worker id's loop, under the write lock.  On the contraction
\* path the worker removes its own join handle; if thread() has not
\* inserted it yet the unwrap ends the process.
loop_top(S, id) ==
    IF S.halt THEN [S EXCEPT !.total_workers = @ - 1, !.wk[id].pc = "leaving"]
    ELSE IF Trim(S.waiting_workers + 1, S.min)
    THEN (IF id \in S.jhs
          THEN [S EXCEPT !.total_workers = @ - 1, !.jhs = @ \ {id}, !.wk[id].pc = "leaving"]
          ELSE [S EXCEPT !.total_workers = @ - 1, !.dead = TRUE])
    ELSE [S EXCEPT !.waiting_workers = @ + 1, !.wk[id].pc = "recv"]

WorkerTop(w) ==
    /\ ~rt.dead /\ rt.wk[w].pc = "top"
    /\ rt' = loop_top(rt, w)
    /\ UNCHANGED RtFixed

\* The thread of a worker that left its loop ends.
WorkerLeave(w) ==
    /\ ~rt.dead /\ rt.wk[w].pc = "leaving"
    /\ rt' = [rt EXCEPT !.wk[w].pc = "done"]
    /\ UNCHANGED RtFixed

\* recv.recv(): the next message of the channel; a Halt sends the worker
\* back to the top of its loop.
WorkerRecv(w) ==
    /\ ~rt.dead /\ rt.wk[w].pc = "recv" /\ rt.queue # <<>>
    /\ rt' = IF Head(rt.queue).k = "Halt"
             THEN [rt EXCEPT !.queue = Tail(@), !.wk[w].pc = "top"]
             ELSE [rt EXCEPT !.queue = Tail(@), !.wk[w].pc = "deq",
                             !.wk[w].task = Head(rt.queue).t]
    /\ UNCHANGED RtFixed

\* A faulty expansion test: waiting_workers is not looked at.
do_spawnAlways(waiting_workers, total_workers, max, halt) == total_workers < max /\ ~halt

\* The expansion test after a task was dequeued.
do_spawn(waiting_workers, total_workers, max, halt) ==
    waiting_workers = 0 /\ total_workers < max /\ ~halt

\* A task was dequeued: under the write lock the worker is no longer
\* waiting, and decides whether to spawn another.
WorkerDeq(w) ==
    /\ ~rt.dead /\ rt.wk[w].pc = "deq"
    /\ rt' = IF do_spawn(rt.waiting_workers - 1, rt.total_workers, rt.max, rt.halt)
             THEN [rt EXCEPT !.waiting_workers = @ - 1, !.total_workers = @ + 1,
                             !.wk[w].pc = "spawn"]
             ELSE [rt EXCEPT !.waiting_workers = @ - 1, !.wk[w].pc = "run"]
    /\ UNCHANGED RtFixed

\* thread() called by the worker: spawnj ...
WorkerSpawn(w) ==
    /\ ~rt.dead /\ rt.wk[w].pc = "spawn"
    /\ rt' = spawnj(rt, w)
    /\ UNCHANGED RtFixed

\* ... and, under the lock, the insertion of the join handle.
WorkerInsert(w) ==
    /\ ~rt.dead /\ rt.wk[w].pc = "insert"
    /\ rt' = [rt EXCEPT !.jhs = @ \cup {rt.wk[w].child}, !.wk[w].child = 0,
                        !.late = IF rt.owner = "join" THEN @ \cup {rt.wk[w].child} ELSE @,
                        !.wk[w].pc = "run"]
    /\ UNCHANGED RtFixed

\* A faulty order: the result is sent before the flag is set.
AfterSendFirst(pc) ==
    CASE pc = "run" -> "send" [] pc = "send" -> "flag" [] pc = "flag" -> "top"

\* The statements that follow one another once a task is at hand: the
\* closure, the completion flag, the reply.
After(pc) ==
    CASE pc = "run" -> "flag" [] pc = "flag" -> "send" [] pc = "send" -> "top"

\* let res = t.0()
WorkerRun(w) ==
    /\ ~rt.dead /\ rt.wk[w].pc = "run"
    /\ rt' = [rt EXCEPT !.task[rt.wk[w].task].runs = @ + 1,
                        !.task[rt.wk[w].task].by = @ \cup {w},
                        !.wk[w].pc = After("run")]
    /\ UNCHANGED RtFixed

\* *t.2 = true
WorkerFlag(w) ==
    /\ ~rt.dead /\ rt.wk[w].pc = "flag"
    /\ rt' = [rt EXCEPT !.task[rt.wk[w].task].flag = TRUE, !.wk[w].pc = After("flag")]
    /\ UNCHANGED RtFixed

\* t.1.send(res)
WorkerSend(w) ==
    /\ ~rt.dead /\ rt.wk[w].pc = "send"
    /\ rt' = [rt EXCEPT !.task[rt.wk[w].task].reply = Append(@, TaskValue(rt.wk[w].task)),
                        !.wk[w].pc = After("send")]
    /\ UNCHANGED RtFixed

\* Handle::block_on returns what the reply channel holds.
BlockOn(t) ==
    /\ ~rt.dead /\ rt.task[t].reply # <<>> /\ rt.task[t].got = <<>>
    /\ rt' = [rt EXCEPT !.task[t].got = <<Head(rt.task[t].reply)>>,
                        !.task[t].reply = Tail(@)]
    /\ UNCHANGED RtFixed

\* Handle::is_complete: the values a read of the flag can give.  The flag
\* is a plain bool the worker writes and the handle's thread reads with
\* no synchronisation but the reply channel: a read sees the write for
\* certain only once block_on has received the result sent after it.
is_complete(S, t) ==
    IF ~S.task[t].flag THEN {FALSE}
    ELSE IF S.task[t].got # <<>> THEN {TRUE}
    ELSE {TRUE, FALSE}

WorkerStep(w) ==
    \/ WorkerTop(w)
    \/ WorkerLeave(w)
    \/ WorkerRecv(w)
    \/ WorkerDeq(w)
    \/ WorkerSpawn(w)
    \/ WorkerInsert(w)
    \/ WorkerRun(w)
    \/ WorkerFlag(w)
    \/ WorkerSend(w)

RtNext ==
    \/ RtStart
    \/ RtStartSpawn
    \/ RtStartInsert
    \/ RtExecute
    \/ RtStop
    \/ RtStopHalts
    \/ RtStopJoin
    \/ \E w \in WorkerIds : WorkerStep(w)
    \/ \E t \in TaskIds : BlockOn(t)

SpecRt == RtInit /\ [][RtNext]_vars


----------------------------------------------------------------------------
(* Properties of the task runtime, checked under SpecRt.                   *)

\* Task t was run by one worker, once, and its result was sent once.
RanOnce(S, t) ==
    /\ S.task[t].runs = 1 /\ Cardinality(S.task[t].by) = 1
    /\ Len(S.task[t].reply) + Len(S.task[t].got) = 1

\* No thread of the runtime is left and no call on it is in progress.
Over(S) == S.owner = "idle" /\ Live(S) = {}

\* C15: every task for which execute() returned Ok is run by exactly one
\* worker, exactly once, and its result is sent exactly once: a task is
\* never run or answered twice, and when a started runtime has been stopped
\* and its last thread has ended, no accepted task is left that was not run.
C15_AsClaimed ==
    \A t \in TaskIds :
        /\ rt.task[t].runs <= 1 /\ Len(rt.task[t].reply) + Len(rt.task[t].got) <= 1
        /\ (rt.started /\ rt.stopped /\ Over(rt) /\ rt.task[t].accepted) => RanOnce(rt, t)


\* C16 (as claimed): on a runtime started once, total_workers never exceeds
\* max_threads, the number of live worker threads never exceeds max_threads,
\* and while halt is false total_workers is never below min_threads.
C16_AsClaimed ==
    (rt.starts = 1 /\ ~rt.dead) =>
        /\ rt.total_workers <= rt.max
        /\ Cardinality(Live(rt)) <= rt.max
        /\ ~rt.halt => rt.total_workers >= rt.min


\* The workers whose task's closure has not returned, and those blocked in
\* recv.
Running(S) == {w \in WorkerIds : S.wk[w].pc = "run"}
Waiting(S) == {w \in WorkerIds : S.wk[w].pc = "recv"}

\* The tasks came after every min_threads worker was waiting, none has
\* completed, at least one is running, and nothing is left to happen until
\* one completes: every live worker is running a task or blocked in recv
\* on an empty channel.
Settled(S) ==
    /\ S.calm /\ S.started /\ ~S.halt /\ ~S.dead /\ S.owner = "idle"
    /\ \A t \in TaskIds : S.task[t].runs = 0
    /\ Running(S) # {}
    /\ Live(S) = Running(S) \cup Waiting(S)
    /\ Waiting(S) # {} => S.queue = <<>>

SpareTarget(S) ==
    LET k == Cardinality(Running(S))
        m == IF S.min > k + 1 THEN S.min ELSE k + 1
    IN  IF S.max < m THEN S.max ELSE m

\* One step of the pool: threads are born one at a time, by start() or by
\* a worker that is spawning; a worker sets out to spawn only from a task
\* dequeue that brought waiting_workers to 0 with total_workers < max and
\* halt false, and after the insertion it runs its task.
SpawnStep(S, T) ==
    /\ Born(T) # Born(S) =>
         /\ Cardinality(Born(T) \ Born(S)) = 1
         /\ \/ S.owner = "start"
            \/ \E w \in WorkerIds : S.wk[w].pc = "spawn" /\ T.wk[w].pc = "insert"
    /\ \A w \in WorkerIds :
         /\ (S.wk[w].pc # "spawn" /\ T.wk[w].pc = "spawn") =>
              /\ S.wk[w].pc = "deq"
              /\ T.waiting_workers = 0 /\ S.waiting_workers = 1
              /\ S.total_workers < S.max /\ ~S.halt
              /\ T.total_workers = S.total_workers + 1
         /\ S.wk[w].pc = "spawn" => T.wk[w].pc \in {"spawn", "insert"}
         /\ S.wk[w].pc = "insert" => T.wk[w].pc \in {"insert", "run"}
    /\ T.total_workers > S.total_workers =>
         \E w \in WorkerIds : S.wk[w].pc = "deq" /\ T.wk[w].pc = "spawn"

\* C17: with k tasks running and none completed, on a pool whose
\* min_threads workers were all waiting when the tasks came, total_workers
\* settles at min(max_threads, max(min_threads, k + 1)); a worker is
\* spawned only by a task dequeue that brings waiting_workers to 0 while
\* total_workers < max_threads and halt is false, one worker per dequeue.
C17_SpareWorker ==
    [][/\ Settled(rt') => rt'.total_workers = SpareTarget(rt')
       /\ SpawnStep(rt, rt')]_vars

\* Two tasks are running on a pool of minimum 1: two dequeues have spawned
\* a worker each and the third worker is waiting.
C17_Witness ==
    /\ Settled(rt) /\ rt.min = 1 /\ rt.max = 3
    /\ Cardinality(Running(rt)) = 2 /\ rt.total_workers = 3
    /\ Cardinality(Waiting(rt)) = 1


\* The scheduler lets every thread that can take a step take one: each
\* worker thread, and the owner's thread inside start().  Nothing obliges
\* the owner to call execute() or stop().
SpecRtFair ==
    /\ RtInit /\ [][RtNext]_vars
    /\ \A w \in WorkerIds : WF_vars(WorkerStep(w))
    /\ WF_vars(RtStartSpawn \/ RtStartInsert)

\* start() was called on a pool of minimum >= 1, stop() was not, and
\* every task submitted has completed: its result was sent.
Idle(S) ==
    /\ S.min >= 1 /\ S.starts = 1 /\ ~S.halt
    /\ \A t \in TaskIds : S.task[t].accepted => Len(S.task[t].reply) + Len(S.task[t].got) = 1

\* The process runs and the pool is at its minimum.
Trimmed(S) ==
    ~S.dead /\ S.total_workers = S.min /\ S.waiting_workers = S.min

\* C18 (as claimed): once every submitted task has completed and no
\* further task is submitted, the runtime eventually reaches
\* total_workers = min_threads and waiting_workers = min_threads and stays
\* there, for every min_threads >= 1 and every burst size.
C18_AsClaimed == <>[](Idle(rt) => Trimmed(rt))


\* What holds of task t's handle in state S: is_complete() is false as
\* long as the closure has not returned, a result is sent only with the
\* flag set, and once block_on() has returned it has returned the
\* closure's value and is_complete() is true.
HandleOk(S, t) ==
    /\ S.task[t].runs = 0 => is_complete(S, t) = {FALSE}
    /\ Len(S.task[t].reply) + Len(S.task[t].got) >= 1 => S.task[t].flag
    /\ S.task[t].got # <<>> =>
         /\ S.task[t].got = <<TaskValue(t)>>
         /\ is_complete(S, t) = {TRUE}

\* C19: for every task handle, is_complete() is false until the closure
\* has returned, the completion flag is set before the result is sent,
\* and when block_on() returns it returns the closure's return value and
\* is_complete() is true from then on.
C19_Handle ==
    [][\A t \in TaskIds :
         /\ HandleOk(rt', t)
         /\ rt.task[t].flag => rt'.task[t].flag
         /\ rt.task[t].got # <<>> => rt'.task[t].got = rt.task[t].got]_vars

\* block_on() has returned the first task's value while the second task's
\* closure has been handed to a worker and has not returned.
C19_Witness ==
    /\ rt.task[1].got = <<TaskValue(1)>> /\ is_complete(rt, 1) = {TRUE}
    /\ rt.task[2].runs = 0 /\ \E w \in Running(rt) : rt.wk[w].task = 2


\* A call of start(), execute() or stop() by the owner.
OwnerCall == RtStart \/ RtExecute \/ RtStop

\* What a rejected call leaves alone: the channel, the tasks, the thread
\* counter, the threads, the join table, the pool's counters.
Untouched(S, T) ==
    /\ T.queue = S.queue /\ T.task = S.task
    /\ T.counter = S.counter /\ T.wk = S.wk /\ T.jhs = S.jhs
    /\ T.total_workers = S.total_workers /\ T.waiting_workers = S.waiting_workers
    /\ T.halt = S.halt /\ T.owner = S.owner

\* C20: the first stop() returns Ok; after it every call of stop(),
\* execute() and start() returns a NotInitialized error, and such a
\* rejected call enqueues no task, sends no Halt message and spawns no
\* thread.
C20_AfterStop ==
    [][/\ (RtStop /\ ~rt.stopped) => rt'.halt /\ rt'.owner = "halts"
       /\ (~rt.stopped /\ rt'.stopped) => rt'.lastret = [op |-> "stop", res |-> "Ok"]
       /\ (rt.stopped /\ OwnerCall) =>
            /\ rt'.lastret.res = "NotInitialized"
            /\ rt'.rejected = rt.rejected + 1
            /\ Untouched(rt, rt')]_vars

\* After the first stop() an execute() and a stop() were rejected, with a
\* task that was never run still in the channel.
C20_Witness ==
    /\ rt.stopped /\ rt.rejected = 2 /\ rt.lastret = [op |-> "stop", res |-> "NotInitialized"]
    /\ \E i \in 1..Len(rt.queue) : rt.queue[i].k = "Task"


\* C21 (as claimed): when stop() returns Ok, every worker thread that was
\* ever spawned has left its loop and has been joined, a worker whose join
\* handle is inserted while stop() is running included.
C21_AsClaimed ==
    [][(~rt.stopped /\ rt'.stopped) =>
          \A w \in Born(rt') : rt'.wk[w].pc = "done"]_vars


----------------------------------------------------------------------------
(* The channel of src/rust/std/channel.rs.  Sender and Receiver are        *)
(* handles on one reference-counted ChannelInner; a message is a heap box  *)
(* whose address is handed to the queue of the channel primitives, an      *)
(* unbounded FIFO of addresses with a blocking receive and a pending       *)
(* probe.  Values are numbered in the order the senders box them.          *)

\* How many values are sent in all.
MaxSends == 3

\* The threads using the channel: two that send, two that receive.
ChanSenders == {"s1", "s2"}
ChanReceivers == {"r1", "r2"}
ChanThreads == ChanSenders \cup ChanReceivers

\* The addresses alloc can hand out, and the values sent.
ChanAddrs == 1..MaxSends
ChanValues == 1..MaxSends

\* channel(): one Sender and one Receiver on an empty queue.
ChannelNew ==
    [destroyed |-> FALSE, hold |-> {"s1", "r1"}, had |-> {"s1", "r1"},
     q |-> <<>>, heap |-> [a \in ChanAddrs |-> [v |-> 0, live |-> FALSE]],
     nextv |-> 1, sent |-> <<>>, npop |-> 0,
     ret |-> [k \in ChanValues |-> 0], dropped |-> [v \in ChanValues |-> 0],
     th |-> [t \in ChanThreads |-> [pc |-> "idle", addr |-> 0, val |-> 0, k |-> 0]],
     dropper |-> "none"]

ChanFixed ==
    <<conn, wire, peerfin, script, handler, now, codecVars, ws, cs, rt, el, ut>>

ChanInit ==
    /\ ch = ChannelNew /\ rt = NoRuntime /\ el = NoLoop /\ ut = NoCalls
    /\ now = 0 /\ handler = "log"
    /\ conn = NoConn /\ wire = <<>> /\ peerfin = FALSE
    /\ script = Script("ServerConnection", TRUE, ReqPlain, <<>>)
    /\ cpayload = <<>> /\ cmtype = "Text" /\ cbytes = <<>> /\ cphase = "off" /\ rx = <<>>
    /\ ws = [halt |-> FALSE] /\ cs = <<>>

\* Sender::clone / Receiver::clone: another handle of the same kind.
ChanClone(t, u) ==
    /\ t \in ch.hold /\ ch.th[t].pc = "idle" /\ u \notin ch.had
    /\ (t \in ChanSenders) = (u \in ChanSenders)
    /\ ch' = [ch EXCEPT !.hold = @ \cup {u}, !.had = @ \cup {u}]
    /\ UNCHANGED ChanFixed

\* alloc: any address not in use.
ChanFree(S) == {a \in ChanAddrs : ~S.heap[a].live}

\* ChannelInner::send: Box::new(msg) and leak ...
ChanSendBox(t) ==
    /\ t \in ChanSenders /\ t \in ch.hold /\ ch.th[t].pc = "idle"
    /\ ch.nextv <= MaxSends
    /\ \E a \in ChanFree(ch) :
         ch' = [ch EXCEPT !.heap[a] = [v |-> ch.nextv, live |-> TRUE],
                          !.th[t] = [pc |-> "boxed", addr |-> a, val |-> ch.nextv, k |-> 0],
                          !.nextv = @ + 1]
    /\ UNCHANGED ChanFixed

\* ... and channel_send of the box's address.
ChanSendEnq(t) ==
    /\ ch.th[t].pc = "boxed"
    /\ ch' = [ch EXCEPT !.q = Append(@, ch.th[t].addr),
                        !.sent = Append(@, ch.th[t].val),
                        !.th[t] = [pc |-> "idle", addr |-> 0, val |-> 0, k |-> 0]]
    /\ UNCHANGED ChanFixed

\* A faulty order: the message's memory is released before it is read.
recv_afterReleaseFirst(pc) ==
    CASE pc = "pop" -> "release" [] pc = "release" -> "read" [] pc = "read" -> "ret"

\* ChannelInner::recv, the statements that follow one another:
\* channel_recv, ptr::read of the message, release of its memory, return.
recv_after(pc) ==
    CASE pc = "pop" -> "read" [] pc = "read" -> "release" [] pc = "release" -> "ret"

\* channel_recv: blocks while the queue is empty, then takes its head.
ChanRecvPop(t) ==
    /\ t \in ChanReceivers /\ t \in ch.hold /\ ch.th[t].pc = "idle"
    /\ ch.q # <<>>
    /\ ch' = [ch EXCEPT !.q = Tail(@), !.npop = @ + 1,
                        !.th[t] = [pc |-> recv_after("pop"), addr |-> Head(ch.q),
                                   val |-> 0, k |-> ch.npop + 1]]
    /\ UNCHANGED ChanFixed

\* ptr::read(nbox.as_ptr().raw())
ChanRecvRead(t) ==
    /\ ch.th[t].pc = "read"
    /\ ch' = [ch EXCEPT !.th[t].val = ch.heap[ch.th[t].addr].v,
                        !.th[t].pc = recv_after("read")]
    /\ UNCHANGED ChanFixed

\* release(recv)
ChanRecvRelease(t) ==
    /\ ch.th[t].pc = "release"
    /\ ch' = [ch EXCEPT !.heap[ch.th[t].addr].live = FALSE,
                        !.th[t].pc = recv_after("release")]
    /\ UNCHANGED ChanFixed

\* v.value is returned to the caller of recv.
ChanRecvRet(t) ==
    /\ ch.th[t].pc = "ret"
    /\ ch' = [ch EXCEPT !.ret[ch.th[t].k] = ch.th[t].val,
                        !.th[t] = [pc |-> "idle", addr |-> 0, val |-> 0, k |-> 0]]
    /\ UNCHANGED ChanFixed

\* A handle is dropped; the thread that drops the last one runs
\* ChannelInner's destructor.
ChanDropHandle(t) ==
    /\ t \in ch.hold /\ ch.th[t].pc = "idle"
    /\ ch' = [ch EXCEPT !.hold = @ \ {t},
                        !.dropper = IF ch.hold = {t} THEN t ELSE @]
    /\ UNCHANGED ChanFixed

\* A faulty destructor: the queue is not emptied.
drop_loopNever(pending) == FALSE

\* Drop for ChannelInner: while self.pending()
drop_loop(pending) == pending

\* One pass of the destructor's loop: a recv whose value is dropped at the
\* end of the pass; after the last pass, channel_destroy.
ChanDrop ==
    /\ ch.dropper # "none" /\ ~ch.destroyed
    /\ ch' = IF drop_loop(ch.q # <<>>)
             THEN [ch EXCEPT !.q = Tail(@), !.npop = @ + 1,
                             !.heap[Head(ch.q)].live = FALSE,
                             !.dropped[ch.heap[Head(ch.q)].v] = @ + 1]
             ELSE [ch EXCEPT !.destroyed = TRUE]
    /\ UNCHANGED ChanFixed

ChanNext ==
    \/ \E t, u \in ChanThreads : ChanClone(t, u)
    \/ \E t \in ChanThreads : ChanSendBox(t)
    \/ \E t \in ChanThreads : ChanSendEnq(t)
    \/ \E t \in ChanThreads : ChanRecvPop(t)
    \/ \E t \in ChanThreads : ChanRecvRead(t)
    \/ \E t \in ChanThreads : ChanRecvRelease(t)
    \/ \E t \in ChanThreads : ChanRecvRet(t)
    \/ \E t \in ChanThreads : ChanDropHandle(t)
    \/ ChanDrop

SpecChan == ChanInit /\ [][ChanNext]_vars

\* The values in the queue, oldest first.
ChanPending(S) == [i \in 1..Len(S.q) |-> S.heap[S.q[i]].v]

\* The values recv has returned.
ChanReturned(S) == {S.ret[k] : k \in ChanValues} \ {0}

\* C22: values sent on a channel are received in the order they were sent
\* and each exactly once across all receivers: the k-th receive returns
\* the k-th value sent, and what was sent and not yet taken is in the
\* queue, whole and in order.
C22_Fifo ==
    /\ \A k \in ChanValues :
         ch.ret[k] # 0 => k <= Len(ch.sent) /\ ch.ret[k] = ch.sent[k]
    /\ \A t \in ChanReceivers :
         ch.th[t].pc = "ret" => ch.th[t].val = ch.sent[ch.th[t].k]
    /\ \A t, u \in ChanReceivers :
         (t # u /\ ch.th[t].pc # "idle" /\ ch.th[u].pc # "idle") => ch.th[t].k # ch.th[u].k
    /\ ch.npop + Len(ch.q) = Len(ch.sent)
    /\ ChanPending(ch) = SubSeq(ch.sent, ch.npop + 1, Len(ch.sent))
    /\ \A i \in 1..Len(ch.q) : ch.heap[ch.q[i]].live

\* Both senders and both receivers hold a handle, the second value boxed
\* was the first one sent, and all three values have been received.
C22_Witness ==
    /\ ch.sent = <<2, 1, 3>> /\ ch.ret = <<2, 1, 3>>
    /\ ch.had = ChanThreads

\* C23: when the last handle is dropped with values pending, each pending
\* value is received and dropped once and all channel memory is released;
\* a value that was received is not dropped by the channel.
C23_LastDrop ==
    /\ \A v \in ChanValues :
         /\ ch.dropped[v] <= 1
         /\ v \in ChanReturned(ch) => ch.dropped[v] = 0
    /\ ch.destroyed =>
         /\ ch.q = <<>> /\ ChanFree(ch) = ChanAddrs
         /\ \A i \in 1..Len(ch.sent) :
              ch.sent[i] \notin ChanReturned(ch) => ch.dropped[ch.sent[i]] = 1

\* The channel is gone: one value had been received, two were pending
\* when the last handle went.
C23_Witness ==
    /\ ch.destroyed /\ ch.ret[1] # 0 /\ Len(ch.sent) = 3
    /\ \E v, w \in ChanValues : v # w /\ ch.dropped[v] = 1 /\ ch.dropped[w] = 1


----------------------------------------------------------------------------
(* SpecOom: sends on a connection whose allocator can fail.                *)

\* How many allocations in a row the allocator refuses before it recovers.
MaxAllocFails == 2

\* How many sends the user threads make.
MaxOomSends == 2

\* Payloads that fit the first buffer of wbuf with their header, and one
\* that does not.
OomPayloads == {<<111>>, [i \in 1..15 |-> 111]}

OomInit ==
    /\ now = 0 /\ handler = "log"
    /\ \E dp \in BOOLEAN, s \in Spaces :
         conn = [NewConnection("ClientConnection", dp) EXCEPT
                   !.cstate = "HandshakeComplete", !.last = 0, !.space = s,
                   !.mem.track = TRUE]
    /\ wire = <<>> /\ peerfin = FALSE
    /\ script = Script("ClientConnection", TRUE, Resp101, <<>>)
    /\ cpayload = <<>> /\ cmtype = "Text" /\ cbytes = <<>> /\ cphase = "off" /\ rx = <<>>
    /\ ws = [halt |-> FALSE] /\ cs = <<>> /\ rt = NoRuntime /\ ch = NoChannel /\ el = NoLoop /\ ut = NoCalls

\* The allocator as a send finds it: it refuses the next k allocations.
OomBefore(st, k) ==
    [st EXCEPT !.mem.fails = k, !.mem.failed = FALSE, !.mem.ret = "none"]

\* What a send leaves behind: what the call returned, if it returned.
OomSent(r) ==
    [r.st EXCEPT !.usends = @ + 1, !.mem.fails = 0,
                 !.mem.ret = IF r.st.mem.crashed THEN "none"
                             ELSE IF r.ok THEN "Ok" ELSE "Err"]

\* WsResponse::send from a user thread.
OomSend(bytes, k) ==
    /\ ~conn.mem.crashed /\ conn.usends < MaxOomSends
    /\ conn' = OomSent(send_impl(OomBefore(conn, k), "Text", bytes))
    /\ UNCHANGED <<wire, peerfin, script, handler, now, codecVars, wsVars>>

OomNext ==
    \/ \E bytes \in OomPayloads, k \in 0..MaxAllocFails : OomSend(bytes, k)
    \/ ~conn.mem.crashed /\ ProcWakeup
    \/ ~conn.mem.crashed /\ ProcWrite
    \/ ~conn.mem.crashed /\ \E s \in Spaces : KernelSpace(s)

SpecOom == OomInit /\ [][OomNext]_vars

\* C24 (as claimed): when appending unsent bytes to wbuf fails, the send
\* call terminates and returns an error, the connection is closed with
\* 1011 and its socket is shut down, and the endpoint keeps running.
C24_AsClaimed ==
    conn.mem.failed =>
        /\ ~conn.mem.crashed
        /\ conn.mem.ret = "Err"
        /\ conn.shut


----------------------------------------------------------------------------
(* Write interest, checked under SpecSend.                                 *)

\* C29 (as claimed): in every reachable state a connection whose wbuf is
\* empty has no write interest registered with its worker's multiplexer.
C29_AsClaimed == Len(conn.wbuf) = 0 => ~conn.winterest


----------------------------------------------------------------------------
(* SpecLoop: the workers' event loops step by step, with the threads that  *)
(* call add_server, add_client and send.  The multiplexer, the wake pipe   *)
(* and the listening socket are the kernel's: an edge-triggered            *)
(* multiplexer holds one pending event per registered source, raised when  *)
(* data (a byte, a connection, room to write) arrives at the source and    *)
(* taken by the wait that returns it.                                      *)

LoopThreads == 2
MaxArrivals == 2
MaxAddClients == 1
MaxLoopSends == 1

LoopWorkers == 0..(LoopThreads - 1)

\* The Connections: the listener's Connection of each worker, the clients
\* made by add_client, the connections taken from the listening socket.
ServerConn(w) == <<"S", w>>
ClientConn(k) == <<"C", k>>
AcceptedConn(n) == <<"A", n>>
LoopConns ==
    {ServerConn(w) : w \in LoopWorkers}
        \cup {ClientConn(k) : k \in 1..MaxAddClients}
        \cup {AcceptedConn(n) : n \in 1..MaxArrivals}

\* The event of the wake pipe's read end (registered with a null cookie),
\* and the events of a Connection.
WakeEvent == [c |-> <<"wake", 0>>, wr |-> FALSE]
ReadEvent(id) == [c |-> id, wr |-> FALSE]
WriteEvent(id) == [c |-> id, wr |-> TRUE]

\* The handles and allocations of the endpoint: the sockets, the ends of a
\* worker's wake pipe, its multiplexer and event buffer, a Connection's Box.
SockOf(id) == <<"sock", id[1], id[2]>>
ListenSock == <<"sock", "S", 0>>
WakeRead(w) == <<"wake", "r", w>>
WakeWrite(w) == <<"wake", "w", w>>
Mplex(w) == <<"mplex", "m", w>>
Events(w) == <<"events", "e", w>>
BoxOf(id) == <<"box", id[1], id[2]>>

\* Connection::new in a Box, before a worker has seen it.
LoopConnection(ctype, w) ==
    [ctype |-> ctype, worker |-> w, connptr |-> FALSE, reg |-> {}, linked |-> FALSE,
     wbuf |-> 0, leaked |-> FALSE]

\* Box::leak: the pointer's bit is set; Drop for Box then releases nothing.
leak(b) == [b EXCEPT !.leaked = TRUE]

\* Drop for Box<Connection>.
box_drop(E, id) == IF E.cn[id].leaked THEN E ELSE [E EXCEPT !.freed = @ \cup {BoxOf(id)}]

LoopNoConn == LoopConnection("None", 0)

\* WorkerState after start: the wake pipe is registered, the channels are
\* empty, the list is empty; the worker waits in socket_multiplex_wait.
LoopWorkerState ==
    [pc |-> "wait", q |-> <<>>, pipe |-> 0, comp |-> 0, ready |-> {}, batch |-> {},
     evt |-> WakeEvent, msg |-> <<"none", ServerConn(0)>>, list |-> <<>>]

\* stop is "off" where no thread calls stop, "idle" before the call.
LoopInitWith(stop) ==
    /\ el = [halt |-> FALSE, crashed |-> FALSE, itt |-> 0,
             listening |-> FALSE, backlog |-> 0, arrived |-> 0, accepted |-> 0,
             wk |-> [w \in LoopWorkers |-> LoopWorkerState],
             cn |-> [id \in LoopConns |-> LoopNoConn],
             api |-> [pc |-> "idle", i |-> 0, servers |-> 0, clients |-> 0, ret |-> {}],
             snd |-> [pc |-> "idle", id |-> ClientConn(1), sends |-> 0],
             stop |-> [pc |-> stop, i |-> 0], closed |-> {}, freed |-> {}, drained |-> {}]
    /\ now = 0 /\ handler = "log"
    /\ conn = NoConn /\ wire = <<>> /\ peerfin = FALSE
    /\ script = Script("ServerConnection", TRUE, ReqPlain, <<>>)
    /\ cpayload = <<>> /\ cmtype = "Text" /\ cbytes = <<>> /\ cphase = "off" /\ rx = <<>>
    /\ ws = [halt |-> FALSE] /\ cs = <<>> /\ rt = NoRuntime /\ ch = NoChannel /\ ut = NoCalls

LoopInit == LoopInitWith("off")

LoopFixed ==
    <<conn, wire, peerfin, script, handler, now, codecVars, ws, cs, rt, ch, ut>>

\* The kernel raises the event e at worker w's multiplexer.
Raise(E, w, e) == [E EXCEPT !.wk[w].ready = @ \cup {e}]

\* Sender::send(msg) on worker w's control channel.
Enqueue(E, w, msg) == [E EXCEPT !.wk[w].q = Append(@, msg)]

\* One byte written to the write end of worker w's wake pipe.
Poke(E, w) == Raise([E EXCEPT !.wk[w].pipe = @ + 1], w, WakeEvent)

\* WebSocket::add_server: socket_listen; from here on connections may
\* arrive at the listening socket.
ApiAddServer ==
    /\ ~el.crashed /\ el.api.pc = "idle" /\ el.api.servers = 0
    /\ el' = [el EXCEPT !.listening = TRUE, !.api.pc = "srv_send", !.api.i = 0]
    /\ UNCHANGED LoopFixed

\* add_server, for worker i: a Server Connection is built, boxed and sent
\* as Read on the worker's channel.
ApiSrvSend ==
    /\ ~el.crashed /\ el.api.pc = "srv_send"
    /\ LET i == el.api.i IN
       el' = Enqueue([el EXCEPT !.cn[ServerConn(i)] = leak(LoopConnection("Server", i)),
                                !.api.pc = "srv_poke"],
                     i, <<"Read", ServerConn(i), TRUE>>)
    /\ UNCHANGED LoopFixed

\* add_server, for worker i: the wake byte; Err(WsStop) if it is not sent.
ApiSrvPoke ==
    /\ ~el.crashed /\ el.api.pc = "srv_poke"
    /\ el' = IF WakeWrite(el.api.i) \in el.closed THEN [el EXCEPT !.api.pc = "err"]
             ELSE Poke([el EXCEPT !.api.pc = "srv_wait"], el.api.i)
    /\ UNCHANGED LoopFixed

\* add_server, for worker i: comp_recv.recv() returns; after the last
\* worker add_server returns.
ApiSrvWait ==
    /\ ~el.crashed /\ el.api.pc = "srv_wait"
    /\ LET i == el.api.i IN
       /\ el.wk[i].comp > 0
       /\ el' = IF i + 1 < LoopThreads
                THEN [el EXCEPT !.wk[i].comp = @ - 1, !.api.i = i + 1, !.api.pc = "srv_send"]
                ELSE [el EXCEPT !.wk[i].comp = @ - 1, !.api.pc = "idle", !.api.servers = 1,
                                !.api.ret = @ \cup {ServerConn(w) : w \in LoopWorkers}]
    /\ UNCHANGED LoopFixed

\* WebSocket::add_client up to the Read message: the worker is chosen by
\* adding one to itt, the ClientConnection is built, boxed and sent.
ApiAddClient ==
    /\ ~el.crashed /\ el.api.pc = "idle" /\ el.api.clients < MaxAddClients
    /\ LET w == el.itt % LoopThreads
           id == ClientConn(el.api.clients + 1)
       IN el' = Enqueue([el EXCEPT !.itt = @ + 1,
                                   !.cn[id] = leak(LoopConnection("ClientConnection", w)),
                                   !.api.pc = "cli_poke", !.api.i = w],
                        w, <<"Read", id, TRUE>>)
    /\ UNCHANGED LoopFixed

\* add_client: the wake byte; if it is not sent the client's socket is
\* closed and Err(IO) returned.
ApiCliPoke ==
    /\ ~el.crashed /\ el.api.pc = "cli_poke"
    /\ el' = IF WakeWrite(el.api.i) \in el.closed
             THEN [el EXCEPT !.api.pc = "err",
                             !.closed = @ \cup {SockOf(ClientConn(el.api.clients + 1))}]
             ELSE Poke([el EXCEPT !.api.pc = "cli_wait"], el.api.i)
    /\ UNCHANGED LoopFixed

\* add_client: comp_recv.recv() returns and add_client returns the
\* WsResponse.
ApiCliWait ==
    /\ ~el.crashed /\ el.api.pc = "cli_wait"
    /\ el.wk[el.api.i].comp > 0
    /\ el' = [el EXCEPT !.wk[el.api.i].comp = @ - 1, !.api.pc = "idle",
                        !.api.clients = @ + 1,
                        !.api.ret = @ \cup {ClientConn(el.api.clients + 1)}]
    /\ UNCHANGED LoopFixed

\* Connection::writeb from a thread that holds the WsResponse add_client
\* returned: the socket takes the whole message, or it does not and the
\* rest is appended to wbuf and Write(connptr) is sent to the worker.
SndSend(full) ==
    /\ ~el.crashed /\ el.snd.pc = "idle" /\ el.snd.sends < MaxLoopSends
    /\ el.snd.id \in el.api.ret
    /\ full => el.cn[el.snd.id].wbuf = 0
    /\ LET id == el.snd.id IN
       el' = IF full THEN [el EXCEPT !.snd.sends = @ + 1]
             ELSE Enqueue([el EXCEPT !.snd.sends = @ + 1, !.snd.pc = "poke",
                                     !.cn[id].wbuf = @ + 1],
                          el.cn[id].worker, <<"Write", id, el.cn[id].connptr>>)
    /\ UNCHANGED LoopFixed

\* writeb: the wake byte.
SndPoke ==
    /\ ~el.crashed /\ el.snd.pc = "poke"
    /\ el' = Poke([el EXCEPT !.snd.pc = "idle"], el.cn[el.snd.id].worker)
    /\ UNCHANGED LoopFixed

\* A connection arrives at the listening socket: every multiplexer the
\* socket is registered with is notified.
Notified(E) ==
    [E EXCEPT !.wk = [w \in LoopWorkers |->
                        IF "r" \in E.cn[ServerConn(w)].reg
                        THEN [E.wk[w] EXCEPT !.ready = @ \cup {ReadEvent(ServerConn(w))}]
                        ELSE E.wk[w]]]

Arrive ==
    /\ ~el.crashed /\ el.listening /\ el.arrived < MaxArrivals
    /\ el' = Notified([el EXCEPT !.backlog = @ + 1, !.arrived = @ + 1])
    /\ UNCHANGED LoopFixed

\* event_loop: socket_multiplex_wait returns the pending events, or none
\* when its 1000 ms have passed; halt is read, and the loop is left if set.
LoopWait(w) ==
    /\ ~el.crashed /\ el.wk[w].pc = "wait" /\ (el.wk[w].ready # {} \/ el.halt)
    /\ el' = IF el.halt
             THEN [el EXCEPT !.wk[w].ready = {}, !.wk[w].pc = "cleanup"]
             ELSE [el EXCEPT !.wk[w].batch = el.wk[w].ready, !.wk[w].ready = {},
                             !.wk[w].pc = "dispatch"]
    /\ UNCHANGED LoopFixed

\* WebSocket::proc_write on a writable event: the socket takes all of wbuf
\* and write interest is unregistered.
loop_proc_write(E, id) == [E EXCEPT !.cn[id].wbuf = 0, !.cn[id].reg = @ \ {"w"}]

\* WebSocket::proc_connection for a Server Connection: the worker whose id
\* is itt modulo the thread count goes into proc_accept.
elected(E, w) == E.itt % LoopThreads = w

\* event_loop, one event of the batch: the wake pipe is cleared and then
\* the channel drained; any other event goes to proc_connection.
dispatched(E, w, e) ==
    IF e = WakeEvent THEN [E EXCEPT !.wk[w].pipe = 0, !.wk[w].pc = "drain"]
    ELSE IF E.cn[e.c].ctype = "Server"
    THEN (IF elected(E, w) THEN [E EXCEPT !.wk[w].pc = "accept"] ELSE E)
    ELSE IF e.wr THEN loop_proc_write(E, e.c)
    ELSE E

LoopDispatch(w) ==
    /\ ~el.crashed /\ el.wk[w].pc = "dispatch"
    /\ IF el.wk[w].batch = {} THEN el' = [el EXCEPT !.wk[w].pc = "wait"]
       ELSE \E e \in el.wk[w].batch :
              el' = dispatched([el EXCEPT !.wk[w].batch = @ \ {e}, !.wk[w].evt = e], w, e)
    /\ UNCHANGED LoopFixed

\* proc_wakeup, a Write message: the connection is registered for read and
\* write; its socket has room, so the writable event is raised.  A null
\* connptr is dereferenced: the process ends.
loop_write_msg(E, w, msg) ==
    IF ~msg[3] THEN [E EXCEPT !.crashed = TRUE]
    ELSE Raise([E EXCEPT !.cn[msg[2]].reg = {"r", "w"}], w, WriteEvent(msg[2]))

\* proc_wakeup: while recv.pending(), one message is received.
LoopDrain(w) ==
    /\ ~el.crashed /\ el.wk[w].pc = "drain"
    /\ el' = IF el.wk[w].q = <<>> THEN [el EXCEPT !.wk[w].pc = "dispatch"]
             ELSE IF Head(el.wk[w].q)[1] = "Read"
             THEN [el EXCEPT !.wk[w].q = Tail(@), !.wk[w].msg = Head(el.wk[w].q),
                             !.wk[w].pc = "read"]
             ELSE loop_write_msg([el EXCEPT !.wk[w].q = Tail(@),
                                            !.wk[w].msg = Head(el.wk[w].q)],
                                 w, Head(el.wk[w].q))
    /\ UNCHANGED LoopFixed

\* proc_wakeup, a Read message: comp_send.send(()).
LoopReadSignal(w) ==
    /\ ~el.crashed /\ el.wk[w].pc = "read"
    /\ el' = [el EXCEPT !.wk[w].comp = @ + 1, !.wk[w].pc = "attach"]
    /\ UNCHANGED LoopFixed

\* proc_wakeup, a Read message after the signal: connptr is stored, the
\* socket is registered for read and the Connection linked at the head of
\* the list.  A listening socket with connections waiting is ready at once.
attach(E, w, id) ==
    LET A == [E EXCEPT !.cn[id].connptr = TRUE, !.cn[id].reg = {"r"},
                       !.cn[id].linked = TRUE, !.wk[w].list = <<id>> \o @,
                       !.wk[w].pc = "drain"]
    IN IF E.cn[id].ctype = "Server" /\ E.backlog > 0 THEN Raise(A, w, ReadEvent(id)) ELSE A

LoopAttach(w) ==
    /\ ~el.crashed /\ el.wk[w].pc = "attach"
    /\ el' = attach(el, w, el.wk[w].msg[2])
    /\ UNCHANGED LoopFixed

\* proc_accept, one pass of its loop: a connection is accepted, boxed,
\* registered and linked, or socket_accept answers EAGAIN and the loop ends.
LoopAccept(w) ==
    /\ ~el.crashed /\ el.wk[w].pc = "accept"
    /\ LET id == AcceptedConn(el.accepted + 1) IN
       el' = IF el.backlog = 0 THEN [el EXCEPT !.wk[w].pc = "bump"]
             ELSE [el EXCEPT !.backlog = @ - 1, !.accepted = @ + 1,
                             !.cn[id] = [leak(LoopConnection("ServerConnection", w)) EXCEPT
                                           !.connptr = TRUE, !.reg = {"r"}, !.linked = TRUE],
                             !.wk[w].list = <<id>> \o @]
    /\ UNCHANGED LoopFixed

\* proc_connection after proc_accept: aadd!(itt, 1).
LoopBump(w) ==
    /\ ~el.crashed /\ el.wk[w].pc = "bump"
    /\ el' = [el EXCEPT !.itt = @ + 1, !.wk[w].pc = "dispatch"]
    /\ UNCHANGED LoopFixed

ApiStep ==
    \/ ApiAddServer \/ ApiSrvSend \/ ApiSrvPoke \/ ApiSrvWait
    \/ ApiAddClient \/ ApiCliPoke \/ ApiCliWait

SndStep == (\E full \in BOOLEAN : SndSend(full)) \/ SndPoke

LoopStep(w) ==
    \/ LoopWait(w) \/ LoopDispatch(w) \/ LoopDrain(w)
    \/ LoopReadSignal(w) \/ LoopAttach(w) \/ LoopAccept(w) \/ LoopBump(w)

LoopNext ==
    \/ ApiStep
    \/ SndStep
    \/ Arrive
    \/ \E w \in LoopWorkers : LoopStep(w)

SpecLoop == LoopInit /\ [][LoopNext]_vars

\* The threads are scheduled fairly; nothing obliges a connection to arrive
\* or the application to call the endpoint.
SpecLoopFair ==
    /\ SpecLoop
    /\ \A w \in LoopWorkers : WF_vars(LoopStep(w))
    /\ WF_vars(ApiSrvSend \/ ApiSrvPoke \/ ApiSrvWait \/ ApiCliPoke \/ ApiCliWait)
    /\ WF_vars(SndPoke)


----------------------------------------------------------------------------
(* Properties of the event loops, checked under SpecLoop.                  *)

\* connptr is stored, read interest registered and the Connection linked.
Attached(E, id) == E.cn[id].connptr /\ "r" \in E.cn[id].reg /\ E.cn[id].linked

\* C25 (as claimed): a worker that processes Read(conn) has stored connptr,
\* registered read interest and linked the connection when it signals the
\* completion channel, so that when add_server or add_client returns the
\* injected connection is attached.
C25_AsClaimed ==
    [][/\ \A w \in LoopWorkers :
            el'.wk[w].comp > el.wk[w].comp => Attached(el', el.wk[w].msg[2])
       /\ \A id \in LoopConns :
            (id \in el'.api.ret /\ id \notin el.api.ret) => Attached(el', id)]_vars


\* The workers that are in proc_accept's loop.
InAcceptLoop(E) == {w \in LoopWorkers : E.wk[w].pc = "accept"}

\* C27 (as claimed): at any time at most one worker is in the accept loop
\* of the shared listening socket, with add_client calls adding to the
\* same counter.
C27_AsClaimed == Cardinality(InAcceptLoop(el)) <= 1


\* C28 (as claimed), for an endpoint whose add_server has returned, on
\* which add_client is not called and whose process runs on: every
\* connection that arrives at the listening socket is eventually accepted
\* by some worker, whether or not another connection arrives after it.
C28_AsClaimed ==
    (el.backlog > 0 /\ el.api.servers = 1)
        ~> (el.backlog = 0 \/ el.crashed \/ el.api.clients > 0 \/ el.api.pc # "idle")


\* C26 (as claimed): every control message that was enqueued and followed
\* by a wake byte is eventually dequeued and processed by its worker, and
\* so a connection with bytes in wbuf eventually has them sent.
C26_AsClaimed ==
    /\ \A w \in LoopWorkers : (el.wk[w].q # <<>>) ~> (el.wk[w].q = <<>> /\ ~el.crashed)
    /\ \A id \in LoopConns : (el.cn[id].wbuf > 0) ~> (el.cn[id].wbuf = 0)


----------------------------------------------------------------------------
(* SpecLock: the connection of SpecSend with its write lock followed.      *)

LockInit ==
    /\ now = 0
    /\ \E su \in SendSetups :
         /\ script = su.script
         /\ handler = su.handler
         /\ conn = [NewConnection(su.script.ctype, su.debug_pending) EXCEPT
                      !.last = 0, !.lk.track = TRUE,
                      !.out = IF su.script.ctype = "ClientConnection" THEN ClientHello ELSE <<>>]
         /\ wire = FullStream(su.script)
    /\ peerfin = FALSE
    /\ cpayload = <<>> /\ cmtype = "Text" /\ cbytes = <<>> /\ cphase = "off" /\ rx = <<>>
    /\ ws = [halt |-> FALSE] /\ cs = <<>> /\ rt = NoRuntime /\ ch = NoChannel /\ el = NoLoop /\ ut = NoCalls

SpecLock == LockInit /\ [][SendNext]_vars

\* C30 (as claimed): every change of a connection's wbuf and every
\* transition of its cstate to Closed is made by a thread that holds the
\* connection's write lock.
C30_AsClaimed == ~conn.lk.bare


----------------------------------------------------------------------------
(* SpecWire: threads that hold clones of one WsResponse, inside send and   *)
(* close, one writeb at a time, with the worker that drains wbuf.          *)

WireThreads == 2
MaxWireCalls == 1

WireIds == 1..WireThreads

\* The payload thread t sends, and the frame that carries it.
WirePayload(t) == <<100 + t>>
WireFrame(t) == <<129, 1>> \o WirePayload(t)

WireInit ==
    /\ now = 0 /\ handler = "log"
    /\ \E dp \in BOOLEAN, s \in Spaces :
         conn = [NewConnection("ClientConnection", dp) EXCEPT
                   !.cstate = "HandshakeComplete", !.last = 0, !.space = s]
    /\ wire = <<>> /\ peerfin = FALSE
    /\ script = Script("ClientConnection", TRUE, Resp101, <<>>)
    /\ cpayload = <<>> /\ cmtype = "Text" /\ cbytes = <<>> /\ cphase = "off" /\ rx = <<>>
    /\ ws = [halt |-> FALSE] /\ cs = <<>> /\ rt = NoRuntime /\ ch = NoChannel /\ el = NoLoop
    /\ ut = [lock |-> 0, done |-> {},
             th |-> [t \in WireIds |-> [pc |-> "idle", parts |-> <<>>, calls |-> 0]]]

WireFixed == <<wire, peerfin, script, handler, now, codecVars, ws, cs, rt, ch, el>>

\* send_impl: the connection's write lock is taken; the writeb calls to
\* come are those of the header and the one of the payload.
WireSend(t) ==
    /\ ut.th[t].pc = "idle" /\ ut.th[t].calls < MaxWireCalls
    /\ ut.lock = 0
    /\ ut' = [ut EXCEPT !.lock = t, !.th[t].pc = "send", !.th[t].calls = @ + 1,
                        !.th[t].parts = FrameHeaderWrites(129, Len(WirePayload(t)))
                                            \o <<WirePayload(t)>>]
    /\ UNCHANGED <<conn, WireFixed>>

\* send_impl after one writeb has returned r: close(1011) and Err, the
\* next writeb, or Ok; the lock is released at the return.
WireSent(t, r) ==
    IF ~r.ok
    THEN /\ conn' = close(r.st, 1011)
         /\ ut' = [ut EXCEPT !.lock = 0, !.th[t].pc = "idle", !.th[t].parts = <<>>]
    ELSE IF Len(ut.th[t].parts) = 1
    THEN /\ conn' = r.st
         /\ ut' = [ut EXCEPT !.lock = 0, !.th[t].pc = "idle", !.th[t].parts = <<>>,
                             !.done = @ \cup {t}]
    ELSE /\ conn' = r.st
         /\ ut' = [ut EXCEPT !.th[t].parts = Tail(@)]

\* send_impl: one writeb.
WireSendWriteb(t) ==
    /\ ut.th[t].pc = "send"
    /\ WireSent(t, writeb(conn, Head(ut.th[t].parts)))
    /\ UNCHANGED WireFixed

\* WsResponse::close(status): Connection::close, which takes no lock.
WireClose(t, status) ==
    /\ ut.th[t].pc = "idle" /\ ut.th[t].calls < MaxWireCalls
    /\ ut' = [ut EXCEPT !.th[t].calls = @ + 1,
                        !.th[t].pc = IF conn.cstate # "NeedHandshake" THEN "close" ELSE "shut",
                        !.th[t].parts = IF conn.cstate # "NeedHandshake"
                                        THEN << <<136, 0>>, <<136, 2>>, to_be_bytes_u16(status) >>
                                        ELSE <<>>]
    /\ UNCHANGED <<conn, WireFixed>>

\* Connection::close: one writeb, its result ignored.
WireCloseWriteb(t) ==
    /\ ut.th[t].pc = "close"
    /\ conn' = writeb(conn, Head(ut.th[t].parts)).st
    /\ ut' = [ut EXCEPT !.th[t].parts = Tail(@),
                        !.th[t].pc = IF Len(ut.th[t].parts) = 1 THEN "shut" ELSE "close"]
    /\ UNCHANGED WireFixed

\* Connection::close: socket_shutdown.
WireCloseShut(t) ==
    /\ ut.th[t].pc = "shut"
    /\ conn' = socket_shutdown(conn)
    /\ ut' = [ut EXCEPT !.th[t].pc = "idle"]
    /\ UNCHANGED WireFixed

\* The worker: proc_wakeup, and proc_write once it has the write lock.
WireWorker ==
    \/ ProcWakeup
    \/ ut.lock = 0 /\ ProcWrite
    \/ \E s \in Spaces : KernelSpace(s)

WireNext ==
    \/ \E t \in WireIds : WireSend(t)
    \/ \E t \in WireIds : WireSendWriteb(t)
    \/ \E t \in WireIds, status \in UserStatuses : WireClose(t, status)
    \/ \E t \in WireIds : WireCloseWriteb(t)
    \/ \E t \in WireIds : WireCloseShut(t)
    \/ WireWorker

SpecWire == WireInit /\ [][WireNext]_vars

\* The bytes the connection has put towards its peer, in order: those the
\* socket took and those waiting in wbuf.
WireStream == conn.out \o conn.wbuf

\* C31 (as claimed): the header and payload bytes of every send that has
\* returned Ok on a socket that still takes bytes lie next to each other in
\* the connection's output byte stream.
C31_AsClaimed ==
    \A t \in ut.done : ~SockBroken(conn) => Occ(WireFrame(t), WireStream) >= 1


----------------------------------------------------------------------------
(* The connection state table, checked under SpecConn.                     *)

\* This step has given writeb the bytes pat.
Wrote(pat) ==
    /\ conn'.written # conn.written
    /\ EndsWith(conn'.written, pat)
    /\ Len(conn'.written) - Len(conn.written) >= Len(pat)

\* C32: cstate becomes Closed in the step that answers a malformed request
\* with the 400 response, in the step that answers reserved bits with a close
\* of status 1002, and at a read that returns EOF or an error; a Closed
\* connection stays Closed; a write on a Closed connection returns an error
\* and leaves the bytes sent and the bytes buffered as they were.
C32_AsClaimed ==
    [][/\ Wrote(BAD_REQUEST) => conn'.cstate = "Closed"
       /\ Wrote(Close1002) => conn'.cstate = "Closed"
       /\ (conn'.closed /\ ~conn.closed) => conn'.cstate = "Closed"
       /\ conn.cstate = "Closed" => conn'.cstate = "Closed"
       /\ conn.cstate = "Closed"
          => \A msg \in UserPayloads :
               /\ ~writeb(conn, msg).ok
               /\ writeb(conn, msg).st.out = conn.out
               /\ writeb(conn, msg).st.wbuf = conn.wbuf]_vars


----------------------------------------------------------------------------
(* SpecHalt: the event loops of SpecLoop with the thread that calls stop.  *)

HaltInit == LoopInitWith("idle")

\* WebSocket::stop: halt is set under the state's write lock.  stop takes
\* the endpoint by &mut, as add_server and add_client do.
HaltStop ==
    /\ ~el.crashed /\ el.stop.pc = "idle" /\ el.api.pc = "idle"
    /\ el' = [el EXCEPT !.halt = TRUE, !.stop.pc = "poke", !.stop.i = 0]
    /\ UNCHANGED LoopFixed

\* WebSocket::wakeup_threads: a byte is sent to the wake pipe of worker i;
\* a send that fails is logged and the loop goes on.
HaltPoke(ok) ==
    /\ ~el.crashed /\ el.stop.pc = "poke"
    /\ LET i == el.stop.i
           P == IF ok /\ WakeWrite(i) \notin el.closed THEN Poke(el, i) ELSE el
       IN el' = IF i + 1 < LoopThreads THEN [P EXCEPT !.stop.i = i + 1]
                ELSE [P EXCEPT !.stop.pc = "join"]
    /\ UNCHANGED LoopFixed

\* Runtime::stop: the workers' threads are joined.
HaltJoin ==
    /\ ~el.crashed /\ el.stop.pc = "join"
    /\ \A w \in LoopWorkers : el.wk[w].pc = "done"
    /\ el' = [el EXCEPT !.stop.pc = "done"]
    /\ UNCHANGED LoopFixed

\* The sockets the cleanup of worker w closes: those of the Connections of
\* its list, the listener's in worker 0 only.
cleanup_sockets(E, w) ==
    {IF E.cn[E.wk[w].list[k]].ctype # "Server" THEN SockOf(E.wk[w].list[k]) ELSE ListenSock :
        k \in {j \in 1..Len(E.wk[w].list) :
                 E.cn[E.wk[w].list[j]].ctype # "Server" \/ w = 0}}

\* event_loop after the loop: the Connections of the list are freed and
\* their sockets closed, then both ends of the wake pipe and the
\* multiplexer are closed and the event buffer is released.
cleanup(E, w) ==
    [E EXCEPT !.closed = @ \cup cleanup_sockets(E, w)
                           \cup {WakeRead(w), WakeWrite(w), Mplex(w)},
              !.freed = @ \cup {BoxOf(E.wk[w].list[k]) : k \in 1..Len(E.wk[w].list)}
                          \cup {Events(w)},
              !.wk[w].list = <<>>, !.wk[w].pc = "done"]

LoopExit(w) ==
    /\ ~el.crashed /\ el.wk[w].pc = "cleanup"
    /\ el' = cleanup(el, w)
    /\ UNCHANGED LoopFixed

\* The Connections of the Read messages queued on worker w's channel.
queued(E, w) == {E.wk[w].q[k][2] : k \in {j \in 1..Len(E.wk[w].q) : E.wk[w].q[j][1] = "Read"}}

RECURSIVE drop_all(_, _)
drop_all(E, ids) ==
    IF ids = {} THEN E
    ELSE drop_all(box_drop(E, CHOOSE id \in ids : TRUE), ids \ {CHOOSE id \in ids : TRUE})

\* Drop for ChannelInner, of worker w's control channel: while pending, a
\* message is received and dropped.
channel_drop(E, w) ==
    [drop_all(E, queued(E, w)) EXCEPT !.drained = @ \cup queued(E, w), !.wk[w].q = <<>>]

RECURSIVE drop_channels(_, _)
drop_channels(E, w) == IF w = LoopThreads THEN E ELSE drop_channels(channel_drop(E, w), w + 1)

\* The endpoint is dropped after stop has returned: the workers' channels
\* are destroyed.
HaltDrop ==
    /\ ~el.crashed /\ el.stop.pc = "done" /\ el.api.pc \in {"idle", "err"}
    /\ el' = [drop_channels(el, 0) EXCEPT !.stop.pc = "dropped"]
    /\ UNCHANGED LoopFixed

HaltStep == HaltStop \/ (\E ok \in BOOLEAN : HaltPoke(ok)) \/ HaltJoin

HaltNext ==
    \/ el.stop.pc \in {"idle", "done"} /\ ApiStep
    \/ HaltDrop
    \/ SndStep
    \/ Arrive
    \/ \E w \in LoopWorkers : LoopStep(w)
    \/ \E w \in LoopWorkers : LoopExit(w)
    \/ HaltStep

SpecHalt == HaltInit /\ [][HaltNext]_vars

\* The workers' threads and the thread inside stop are scheduled fairly.
SpecHaltFair ==
    /\ SpecHalt
    /\ \A w \in LoopWorkers : WF_vars(LoopStep(w) \/ LoopExit(w))
    /\ WF_vars(HaltStep)
    /\ WF_vars(SndPoke)

\* Worker w has left its loop and cleaned up.
Exited(E, w) ==
    /\ E.wk[w].pc = "done"
    /\ {WakeRead(w), WakeWrite(w), Mplex(w)} \subseteq E.closed
    /\ Events(w) \in E.freed

\* C33: once stop has set halt every worker leaves its loop and cleans up:
\* the sockets of the non-Server Connections of its list, both ends of its
\* wake pipe and its multiplexer are closed and its event buffer is
\* released; the listening socket is closed by worker 0 only.
C33_AsClaimed ==
    /\ el.halt ~> (\A w \in LoopWorkers : Exited(el, w))
    /\ [][\A w \in LoopWorkers :
            (el.wk[w].pc = "cleanup" /\ el'.wk[w].pc = "done")
            => /\ \A k \in 1..Len(el.wk[w].list) :
                    el.cn[el.wk[w].list[k]].ctype # "Server"
                    => SockOf(el.wk[w].list[k]) \in el'.closed
               /\ (w # 0 /\ ListenSock \notin el.closed) => ListenSock \notin el'.closed]_vars


----------------------------------------------------------------------------
(* The worker's connection list.  SpecList follows the pointers of         *)
(* update_head and remove_from_list on the Connections of one worker; in   *)
(* SpecWs the list is the sequence these pointers spell.                   *)

MaxNodes == 3
ListNodes == 1..MaxNodes
NullPtr == 0

ListInit ==
    /\ ws = [halt |-> FALSE, head |-> NullPtr, linked |-> {},
             next |-> [n \in ListNodes |-> NullPtr],
             prev |-> [n \in ListNodes |-> NullPtr]]
    /\ now = 0 /\ handler = "log"
    /\ conn = NoConn /\ wire = <<>> /\ peerfin = FALSE
    /\ script = Script("ServerConnection", TRUE, ReqPlain, <<>>)
    /\ cpayload = <<>> /\ cmtype = "Text" /\ cbytes = <<>> /\ cphase = "off" /\ rx = <<>>
    /\ cs = <<>> /\ rt = NoRuntime /\ ch = NoChannel /\ el = NoLoop /\ ut = NoCalls

\* WebSocket::update_head, on the pointers.
update_head_ptrs(L, n) ==
    [L EXCEPT !.next[n] = L.head,
              !.prev = [x \in ListNodes |->
                          IF x = n THEN NullPtr
                          ELSE IF x = L.head THEN n ELSE L.prev[x]],
              !.head = n]

\* WebSocket::remove_from_list, on the pointers.
remove_from_list_ptrs(L, n) ==
    [L EXCEPT !.next = [x \in ListNodes |->
                          IF L.prev[n] # NullPtr /\ x = L.prev[n] THEN L.next[n] ELSE L.next[x]],
              !.head = IF L.prev[n] # NullPtr THEN L.head ELSE L.next[n],
              !.prev = [x \in ListNodes |->
                          IF L.next[n] # NullPtr /\ x = L.next[n] THEN L.prev[n] ELSE L.prev[x]]]

\* proc_accept or proc_wakeup links a new Connection.
ListAttach(n) ==
    /\ n \notin ws.linked
    /\ ws' = [update_head_ptrs(ws, n) EXCEPT !.linked = @ \cup {n}]
    /\ UNCHANGED <<conn, now, WsFixed, cs>>

\* proc_read at EOF unlinks the Connection and frees it.
ListRemove(n) ==
    /\ n \in ws.linked
    /\ ws' = [remove_from_list_ptrs(ws, n) EXCEPT !.linked = @ \ {n}]
    /\ UNCHANGED <<conn, now, WsFixed, cs>>

ListNext == \E n \in ListNodes : ListAttach(n) \/ ListRemove(n)

SpecList == ListInit /\ [][ListNext]_vars

\* The Connection reached from the head after k steps along next.
RECURSIVE Walk(_, _)
Walk(L, k) == IF k = 0 THEN L.head ELSE IF Walk(L, k - 1) = NullPtr THEN NullPtr
              ELSE L.next[Walk(L, k - 1)]

\* A well-formed doubly-linked list of exactly the linked Connections.
WellFormed(L) ==
    /\ {Walk(L, k) : k \in 0..MaxNodes} \ {NullPtr} = L.linked
    /\ Walk(L, Cardinality(L.linked)) = NullPtr
    /\ L.head # NullPtr => L.prev[L.head] = NullPtr
    /\ \A x \in L.linked : L.next[x] # NullPtr => L.prev[L.next[x]] = x

ListWellFormed == WellFormed(ws)

\* The list of worker w in SpecWs names no Connection twice and only
\* Connections that have not been freed.
NoRepeat(l) == \A i, j \in 1..Len(l) : l[i] = l[j] => i = j

\* C35: every worker's list is well formed, and every Connection
\* registered with a worker's multiplexer is in that worker's list.
C35_AsClaimed ==
    \A w \in Workers :
        /\ NoRepeat(ws.list[w])
        /\ \A id \in ws.reg[w] : InList(ws.list[w], id)


\* C36: no worker has dereferenced the pointer of a Write message whose
\* Connection it had already unlinked and freed.
C36_AsClaimed == ~ws.ub


----------------------------------------------------------------------------
(* The socket handle after socket_close, checked under SpecSend.           *)

\* C37: once the worker has closed the connection's socket handle, no
\* shutdown is issued on the handle, no byte is sent on it and it is not
\* registered for write interest.
C37_AsClaimed ==
    [][conn.closed => /\ conn'.shut = conn.shut
                      /\ conn'.out = conn.out
                      /\ conn'.winterest => conn.winterest]_vars


\* C38: no worker of the runtime has left by contraction before the thread
\* that spawned it had inserted its join handle into the table: the removal
\* of the worker's own entry has always found it.
C38_AsClaimed == ~rt.dead


\* C39: for a well-formed upgrade request to a server connection, however
\* its bytes are split across reads, no 400 response is written; once the
\* whole request has been read the handshake is complete and exactly one
\* 101 response has been written.
C39_AsClaimed ==
    (conn.ctype = "ServerConnection" /\ script.okreq) =>
        /\ Occ(BAD_REQUEST, conn.written) = 0
        /\ (Len(Delivered) >= Len(script.req) /\ ~conn.reset /\ ~conn.closed) =>
             /\ conn.cstate = "HandshakeComplete"
             /\ Occ(SWITCH_PROTOCOL, Emitted(conn)) = 1


----------------------------------------------------------------------------
(* SpecLen: the frame decoder on headers that declare every kind of        *)
(* payload length, with overflow checks compiled in or not, the bytes      *)
(* arriving in every segmentation.                                         *)

\* The eight length bytes of a 127 header: lengths whose sum with the
\* header length wraps around, lengths that fit no buffer, small lengths.
LenExt64 ==
    {<<255, 255, 255, 255, 255, 255, 255, x>> : x \in {242, 246, 247, 255}}
        \cup {<<255, 255, 255, 255, 255, 255, 254, 255>>, <<1, 0, 0, 0, 0, 0, 0, 0>>,
              <<0, 0, 0, 0, 0, 0, 0, 2>>, <<0, 0, 0, 0, 0, 0, 0, 0>>}

LenKey == <<1, 2, 3, 4>>
LenTails == {<<>>, <<5>>, <<5, 6>>, <<5, 6, 7, 8, 9>>}

\* A binary frame header with the length field len7 and extension ext.
LenHeader(masked, len7, ext) ==
    <<130, IF masked THEN 128 + len7 ELSE len7>> \o ext \o (IF masked THEN LenKey ELSE <<>>)

LenHeaders ==
    {LenHeader(m, 127, e) : m \in BOOLEAN, e \in LenExt64}
        \cup {LenHeader(m, 126, e) : m \in BOOLEAN, e \in {<<0, 2>>, <<1, 0>>}}
        \cup {LenHeader(m, 2, <<>>) : m \in BOOLEAN}

LenInit ==
    /\ now = 0 /\ handler = "log"
    /\ \E checked \in BOOLEAN :
         conn = [NewConnection("ServerConnection", FALSE) EXCEPT
                   !.cstate = "HandshakeComplete", !.last = 0, !.num.checked = checked]
    /\ \E h \in LenHeaders, t \in LenTails : wire = h \o t
    /\ cbytes = wire
    /\ peerfin = FALSE
    /\ script = Script("ServerConnection", TRUE, ReqPlain, <<>>)
    /\ cpayload = <<>> /\ cmtype = "Text" /\ cphase = "off" /\ rx = <<>>
    /\ ws = [halt |-> FALSE] /\ cs = <<>> /\ rt = NoRuntime /\ ch = NoChannel /\ el = NoLoop
    /\ ut = NoCalls

\* A read of n bytes and the decoding that follows it, while the worker's
\* thread is alive and not inside the decoder.
LenRecv(n) ==
    /\ ~conn.num.panicked /\ ~conn.num.spin
    /\ Recv(n)

LenNext == \E n \in 1..RECV_CHUNK : LenRecv(n)

SpecLen == LenInit /\ [][LenNext]_vars

\* The bytes read so far.
LenDelivered == SubSeq(cbytes, 1, Len(cbytes) - Len(wire))

\* The header length of the frame that d begins with, its masking key
\* included, or 0 while d is too short to tell.
HeaderLen(d) ==
    IF Len(d) < 2 THEN 0
    ELSE (IF d[2] % 128 = 126 THEN 4 ELSE IF d[2] % 128 = 127 THEN 10 ELSE 2)
             + (IF d[2] >= 128 THEN 4 ELSE 0)

\* The payload length the header of d declares, as a 64-bit number: a
\* negative number stands for 2^64 minus its absolute value.
DeclaredLen(d) ==
    IF d[2] % 128 = 126 THEN Be16(Slice(d, 2, 4))
    ELSE IF d[2] % 128 = 127 THEN Be64(Slice(d, 2, 10))
    ELSE d[2] % 128

\* d holds the header and all of the declared payload of its first frame.
WholeFrame(d) ==
    /\ HeaderLen(d) > 0 /\ Len(d) >= HeaderLen(d) - (IF d[2] >= 128 THEN 4 ELSE 0)
    /\ DeclaredLen(d) >= 0
    /\ HeaderLen(d) + DeclaredLen(d) <= Len(d)

\* C40: whatever payload length the header declares, the handler has been
\* invoked only if the header and the whole declared payload were buffered;
\* until then the decoder has returned every time, has read nothing outside
\* rbuf and has left rbuf as the reads filled it.
C40_AsClaimed ==
    /\ ~conn.num.panicked /\ ~conn.num.spin /\ ~conn.num.oob
    /\ conn.calls # <<>> => WholeFrame(LenDelivered)
    /\ ~WholeFrame(LenDelivered) => conn.rbuf = LenDelivered

====
